---- MODULE Spec2Model ----
(***************************************************************************)
(* State-machine model of the tisane-relay event plane:                    *)
(*   src/src/utils.rs  compute_payload_hash                                *)
(*   src/src/db.rs     insert_events, fetch_events_since,                  *)
(*                     fetch_replication_batch, peer registry queries      *)
(*   src/src/main.rs   validate_and_insert, push_handler, pull_handler,    *)
(*                     replicate_handler, replication_worker               *)
(*                                                                         *)
(* Encodings.  Option<T> is a sequence: None is << >>, Some(x) is <<x>>.   *)
(* A uuid is a natural number (0 is the nil uuid), compared as Postgres    *)
(* compares uuids.  A timestamp is a natural number (0 is the Unix epoch). *)
(* A JSON payload is an object over the keys the code reads; every key     *)
(* holds an Option of a scalar [t, v].  Byte strings are sequences of      *)
(* string tokens.  The opaque columns device_id, author_id, content_id     *)
(* and lamport are bound and stored verbatim and read by no code path;     *)
(* they are left out of the records.                                       *)
(***************************************************************************)
EXTENDS Integers, Sequences, FiniteSets, TLC

VARIABLES store, nextSeq, peers, worker, acked, last, client, inflight,
          handlers, transit

vars == <<store, nextSeq, peers, worker, acked, last, client, inflight,
          handlers, transit>>

(***************************************************************************)
(* Bounds of the model                                                     *)
(***************************************************************************)
MaxSeq == 3
MaxLimit == 2
MaxHandlers == 1
MaxTransit == 1
MaxMeshSeq == 2

(***************************************************************************)
(* Program constants                                                       *)
(***************************************************************************)
MAX_BATCH_SIZE == 100
MAX_HOPS == 3
REPLICATION_BATCH_LIMIT == 50
DEFAULT_PULL_LIMIT == 100

None == << >>
Some(x) == <<x>>
IsSome(o) == o /= << >>
Unwrap(o) == o[1]

Range(s) == {s[i] : i \in 1..Len(s)}

Relays == {"A", "B"}

\* AppState.relay_id, rendered by Uuid::to_string
RelayIdString(r) == r

NilUuid == 0
Epoch == 0

(***************************************************************************)
(* JSON payloads and their serialisation (serde_json::Value::to_string)    *)
(***************************************************************************)
JStr(s) == [t |-> "str", v |-> s]
JNum(s) == [t |-> "num", v |-> s]

Obj(cid, ws, we) == [content_id |-> cid, window_start |-> ws, window_end |-> we]

\* payload.get(key)
JsonGet(payload, key) ==
    IF key = "content_id" THEN payload.content_id
    ELSE IF key = "window_start" THEN payload.window_start
    ELSE payload.window_end

\* one member of an object: key, then the scalar's type and text
MemberBytes(key, o) == IF IsSome(o) THEN <<key, Unwrap(o).t, Unwrap(o).v>> ELSE << >>

\* p.to_string().into_bytes(): compact text, members in key order
to_string(payload) ==
    <<"{">> \o MemberBytes("content_id", payload.content_id)
            \o MemberBytes("window_end", payload.window_end)
            \o MemberBytes("window_start", payload.window_start)
            \o <<"}">>

\* the bytes hashed and signed: empty when the payload is absent
payload_bytes(payload_json) ==
    IF IsSome(payload_json) THEN to_string(Unwrap(payload_json)) ELSE << >>

\* hex::encode(cid_blake3(bytes)): an injective digest
cid_blake3_hex(bytes) == <<"blake3">> \o bytes

compute_payload_hash(payload_json) == cid_blake3_hex(payload_bytes(payload_json))

(***************************************************************************)
(* Keys and signatures                                                     *)
(*   author_pubkey strings: "zz" is not hex, "ab" is hex of one byte,      *)
(*   "NP" is hex of 32 bytes that are no curve point, "ZERO" is hex of 32  *)
(*   zero bytes (a curve point A of order 4, which has no secret key),     *)
(*   "K1" and "K2" are ordinary keys.                                      *)
(*   A signature string is [kind, signer, msg]: kind "badhex", "short"     *)
(*   (hex of fewer than 64 bytes) or "sig" (hex of 64 bytes: those made    *)
(*   with the secret key of an ordinary key signer over msg, or, with      *)
(*   signer "nobody", the 64 zero bytes).                                  *)
(***************************************************************************)
ZeroKey == "ZERO"

\* hex::decode of an author_pubkey
hex_decode_key(s) == IF s = "zz" THEN None ELSE Some(s)

\* pubkey_bytes.try_into().unwrap_or([0u8; 32])
key_try_into_32(bytes) == IF bytes = "ab" THEN ZeroKey ELSE bytes

\* VerifyingKey::from_bytes
VerifyingKey_from_bytes(b32) == IF b32 = "NP" THEN None ELSE Some(b32)

\* hex::decode of a signature
hex_decode_sig(s) == IF s.kind = "badhex" THEN None ELSE Some(s)

\* sig_bytes.try_into() : [u8; 64]
sig_try_into_64(bytes) == IF bytes.kind = "short" THEN None ELSE Some(bytes)

\* the signature the holder of the ordinary key k makes over bytes
SigBy(k, bytes) == [kind |-> "sig", signer |-> k, msg |-> bytes]

\* the 64 zero bytes, which no key holder makes
SigZeros == [kind |-> "sig", signer |-> "nobody", msg |-> << >>]

\* sign::verify(&vk, &payload_bytes, &sig_array): Ed25519 verification, true
\* of the signature the holder of vk made over these bytes.  The key of 32
\* zero bytes has no holder: no signature made with a secret key verifies
\* under it.  (Whether the 64 zero bytes verify under that key differs
\* between Ed25519 verifiers; no event here carries that pair.)
sign_verify(vk, bytes, sig) == sig.signer = vk /\ sig.msg = bytes

SigShort == [kind |-> "short", signer |-> "nobody", msg |-> << >>]
SigBadHex == [kind |-> "badhex", signer |-> "nobody", msg |-> << >>]

(***************************************************************************)
(* Event store (db.rs)                                                     *)
(***************************************************************************)
\* db::EventInput -> db::Event: the row the INSERT writes
RowOf(ev, seq) ==
    [event_id |-> ev.event_id, server_seq |-> seq,
     author_pubkey |-> ev.author_pubkey, signature |-> ev.signature,
     payload_hash |-> ev.payload_hash, event_type |-> ev.event_type,
     payload_json |-> ev.payload_json, occurred_at |-> ev.occurred_at]

\* db::Event -> db::EventInput, as the worker shapes its POST body
InputOf(row) ==
    [event_id |-> row.event_id,
     author_pubkey |-> row.author_pubkey, signature |-> row.signature,
     payload_hash |-> row.payload_hash, event_type |-> row.event_type,
     payload_json |-> row.payload_json, occurred_at |-> row.occurred_at]

StoredIds(rows) == {row.event_id : row \in rows}

\* A request body is [events, pad]: the array is events followed by pad
\* further copies of its last element.
BatchLen(batch) == Len(batch.events) + batch.pad

\* a sequence that hands out its current value without advancing
nextval_Same(seq) == seq

\* The default of the server_seq column: the next value of a sequence.  The
\* counter after a value has been handed out.
nextval(seq) == seq + 1

\* InsertOne without its ON CONFLICT clause and without the unique index
InsertOne_NoConflict(acc, ev) ==
    [acc EXCEPT !.rows = acc.rows \cup {RowOf(ev, acc.seq)},
                !.seq = nextval(acc.seq),
                !.inserted = Append(acc.inserted, acc.seq)]

\* InsertOne with ON CONFLICT (event_id) DO UPDATE: the stored row takes the
\* new field values and keeps its server_seq
InsertOne_Upsert(acc, ev) ==
    IF ev.event_id \in StoredIds(acc.rows)
    THEN [acc EXCEPT !.rows = {IF row.event_id = ev.event_id
                               THEN RowOf(ev, row.server_seq) ELSE row : row \in acc.rows},
                     !.seq = nextval(acc.seq)]
    ELSE [acc EXCEPT !.rows = acc.rows \cup {RowOf(ev, acc.seq)},
                     !.seq = nextval(acc.seq),
                     !.inserted = Append(acc.inserted, acc.seq)]

\* One INSERT ... ON CONFLICT (event_id) DO NOTHING RETURNING server_seq.
\* The sequence behind server_seq advances whether or not the row conflicts.
InsertOne(acc, ev) ==
    IF ev.event_id \in StoredIds(acc.rows)
    THEN [acc EXCEPT !.seq = nextval(acc.seq)]
    ELSE [acc EXCEPT !.rows = acc.rows \cup {RowOf(ev, acc.seq)},
                     !.seq = nextval(acc.seq),
                     !.inserted = Append(acc.inserted, acc.seq)]

RECURSIVE InsertFrom(_, _, _, _)
InsertFrom(acc, events, i, fail) ==
    IF i > Len(events) THEN acc
    ELSE IF i = fail THEN [acc EXCEPT !.err = TRUE]
    ELSE InsertFrom(InsertOne(acc, events[i]), events, i + 1, fail)

\* insert_events(pool, events).  fail = 0: every statement succeeds;
\* fail = k: statement k returns a store error, statements 1..k-1 stay.
\* The pad copies conflict with the element they copy.
insert_events(rows, seq, batch, fail) ==
    LET acc0 == [rows |-> rows, seq |-> seq, inserted |-> << >>, err |-> FALSE]
        acc1 == InsertFrom(acc0, batch.events, 1, fail)
    IN  IF acc1.err THEN acc1
        ELSE IF fail > Len(batch.events) /\ fail <= BatchLen(batch)
             THEN [acc1 EXCEPT !.err = TRUE,
                               !.seq = acc1.seq + (fail - Len(batch.events) - 1)]
        ELSE [acc1 EXCEPT !.seq = acc1.seq + batch.pad]

\* ORDER BY server_seq ASC
RECURSIVE SortBySeq(_)
SortBySeq(rows) ==
    IF rows = {} THEN << >>
    ELSE LET m == CHOOSE x \in rows : \A y \in rows : x.server_seq <= y.server_seq
         IN  <<m>> \o SortBySeq(rows \ {m})

Take(s, n) == IF Len(s) <= n THEN s ELSE SubSeq(s, 1, n)

\* fetch_events_since with WHERE server_seq >= $1
fetch_events_since_Inclusive(rows, since, limit) ==
    IF limit < 0 THEN [err |-> TRUE, events |-> << >>, next_cursor |-> since]
    ELSE LET events == Take(SortBySeq({row \in rows : row.server_seq >= since}), limit)
         IN  [err |-> FALSE, events |-> events,
              next_cursor |-> IF events = << >> THEN since
                              ELSE events[Len(events)].server_seq]

\* fetch_events_since(pool, since, limit); a negative LIMIT is a store error
fetch_events_since(rows, since, limit) ==
    IF limit < 0 THEN [err |-> TRUE, events |-> << >>, next_cursor |-> since]
    ELSE LET events == Take(SortBySeq({row \in rows : row.server_seq > since}), limit)
         IN  [err |-> FALSE, events |-> events,
              next_cursor |-> IF events = << >> THEN since
                              ELSE events[Len(events)].server_seq]

\* (occurred_at, event_id) < (occurred_at, event_id), both times present
CursorLess(t1, id1, t2, id2) == t1 < t2 \/ (t1 = t2 /\ id1 < id2)

\* InReplicationScan with WHERE occurred_at >= $1: the row at the cursor and
\* the rows that share its time are scanned again
InReplicationScan_Inclusive(row, last_time, last_id) ==
    /\ IsSome(row.occurred_at)
    /\ last_time <= Unwrap(row.occurred_at)

\* WHERE (occurred_at > $1) OR (occurred_at = $1 AND event_id > $2):
\* a NULL occurred_at makes both comparisons NULL and the row is left out
InReplicationScan(row, last_time, last_id) ==
    /\ IsSome(row.occurred_at)
    /\ CursorLess(last_time, last_id, Unwrap(row.occurred_at), row.event_id)

\* SortByCursor with ORDER BY event_id ASC, occurred_at ASC
RECURSIVE SortByCursor_IdFirst(_)
SortByCursor_IdFirst(rows) ==
    IF rows = {} THEN << >>
    ELSE LET m == CHOOSE x \in rows : \A y \in rows \ {x} :
                      CursorLess(x.event_id, Unwrap(x.occurred_at),
                                 y.event_id, Unwrap(y.occurred_at))
         IN  <<m>> \o SortByCursor_IdFirst(rows \ {m})

\* ORDER BY occurred_at ASC, event_id ASC
RECURSIVE SortByCursor(_)
SortByCursor(rows) ==
    IF rows = {} THEN << >>
    ELSE LET m == CHOOSE x \in rows : \A y \in rows \ {x} :
                      CursorLess(Unwrap(x.occurred_at), x.event_id,
                                 Unwrap(y.occurred_at), y.event_id)
         IN  <<m>> \o SortByCursor(rows \ {m})

\* fetch_replication_batch with ORDER BY ... NULLS LAST and a WHERE clause
\* that lets the rows without occurred_at through: they follow the scanned
\* rows, in the order of their event_id
fetch_replication_batch_NullsLast(rows, last_time, last_id, limit) ==
    LET timed == SortByCursor({row \in rows : InReplicationScan(row, last_time, last_id)})
        nulls == SortByCursor({[row EXCEPT !.occurred_at = Some(Epoch)] :
                                  row \in {x \in rows : ~IsSome(x.occurred_at)}})
    IN  Take(timed \o [i \in 1..Len(nulls) |-> [nulls[i] EXCEPT !.occurred_at = None]], limit)

\* fetch_replication_batch(pool, last_time, last_id, limit)
fetch_replication_batch(rows, last_time, last_id, limit) ==
    Take(SortByCursor({row \in rows : InReplicationScan(row, last_time, last_id)}), limit)

(***************************************************************************)
(* Ingestion (main.rs)                                                     *)
(***************************************************************************)
Resp(status, msg) == [status |-> status, msg |-> msg]
Ok == Resp(200, "ok")

ValueProtocolTypes == {"read.completed", "derivative.created", "citation.created", "value.snapshot"}

\* payload.get("content_id").and_then(as_str).map(!is_empty).unwrap_or(false)
has_content_id(payload) ==
    LET v == JsonGet(payload, "content_id")
    IN  IsSome(v) /\ Unwrap(v).t = "str" /\ Unwrap(v).v /= ""

\* has_window with || in place of &&
has_window_Either(payload) ==
    IsSome(JsonGet(payload, "window_start")) \/ IsSome(JsonGet(payload, "window_end"))

has_window(payload) ==
    IsSome(JsonGet(payload, "window_start")) /\ IsSome(JsonGet(payload, "window_end"))

\* the body of push_handler's validation loop for one event
SchemaCheck(ev) ==
    IF IsSome(ev.event_type) /\ Unwrap(ev.event_type) \in ValueProtocolTypes
    THEN IF IsSome(ev.payload_json)
         THEN IF ~has_content_id(Unwrap(ev.payload_json))
              THEN Resp(400, "missing or empty content_id")
              ELSE IF Unwrap(ev.event_type) = "value.snapshot"
                      /\ ~has_window(Unwrap(ev.payload_json))
                   THEN Resp(400, "missing window_start or window_end")
                   ELSE Ok
         ELSE Resp(400, "missing payload")
    ELSE Ok

\* validate_and_insert's loop without its step 1: the sender's hash is kept
Rehash_Keep(ev) == ev

\* step 1 of validate_and_insert's loop: the sender's hash is overwritten
Rehash(ev) == [ev EXCEPT !.payload_hash = compute_payload_hash(ev.payload_json)]

\* step 2 of validate_and_insert's loop for one event
SignatureCheck(ev) ==
    LET pubkey_bytes == hex_decode_key(ev.author_pubkey)
        sig_bytes == hex_decode_sig(ev.signature)
    IN  IF ~IsSome(pubkey_bytes) THEN Resp(400, "invalid author_pubkey hex")
        ELSE IF ~IsSome(sig_bytes) THEN Resp(400, "invalid signature hex")
        ELSE LET vk == VerifyingKey_from_bytes(key_try_into_32(Unwrap(pubkey_bytes)))
                 sig_array == sig_try_into_64(Unwrap(sig_bytes))
             IN  IF ~IsSome(vk) THEN Resp(401, "invalid public key")
                 ELSE IF ~IsSome(sig_array) THEN Resp(401, "invalid signature length")
                 ELSE IF ~sign_verify(Unwrap(vk), payload_bytes(ev.payload_json),
                                      Unwrap(sig_array))
                      THEN Resp(401, "invalid signature")
                      ELSE Ok

\* the first response of checks (one per event, in order) that is not Ok,
\* Ok when there is none: the loops' early return
RECURSIVE FirstFailure(_, _)
FirstFailure(checks, i) ==
    IF i > Len(checks) THEN Ok
    ELSE IF checks[i] /= Ok THEN checks[i]
    ELSE FirstFailure(checks, i + 1)

\* What a handler leaves behind: response, rows, sequence, RETURNING list
Outcome(resp, rows, seq, inserted) ==
    [status |-> resp.status, msg |-> resp.msg, rows |-> rows, seq |-> seq,
     inserted |-> inserted]

RehashAll(batch) ==
    [batch EXCEPT !.events = [i \in 1..Len(batch.events) |-> Rehash(batch.events[i])]]

\* validate_and_insert inserting each event as soon as it has verified it:
\* the events before the first rejected one are stored
validate_and_insert_Eager(rows, seq, batch, fail) ==
    LET checks == [i \in 1..Len(batch.events) |-> SignatureCheck(batch.events[i])]
        bad == FirstFailure(checks, 1)
    IN  IF bad /= Ok
        THEN LET k == CHOOSE i \in 1..Len(checks) :
                          checks[i] /= Ok /\ \A j \in 1..(i - 1) : checks[j] = Ok
                 r == insert_events(rows, seq,
                                    RehashAll([events |-> SubSeq(batch.events, 1, k - 1), pad |-> 0]), 0)
             IN  Outcome(bad, r.rows, r.seq, << >>)
        ELSE LET r == insert_events(rows, seq, RehashAll(batch), fail)
             IN  IF r.err THEN Outcome(Resp(500, "store error"), r.rows, r.seq, r.inserted)
                 ELSE Outcome(Ok, r.rows, r.seq, r.inserted)

\* validate_and_insert(pool, events)
validate_and_insert(rows, seq, batch, fail) ==
    LET bad == FirstFailure([i \in 1..Len(batch.events) |-> SignatureCheck(batch.events[i])], 1)
    IN  IF bad /= Ok THEN Outcome(bad, rows, seq, << >>)
        ELSE LET r == insert_events(rows, seq, RehashAll(batch), fail)
             IN  IF r.err THEN Outcome(Resp(500, "store error"), r.rows, r.seq, r.inserted)
                 ELSE Outcome(Ok, r.rows, r.seq, r.inserted)

\* push_handler verifying the signatures before it validates the schema
push_handler_SigFirst(rows, seq, batch, fail) ==
    IF BatchLen(batch) > MAX_BATCH_SIZE
    THEN Outcome(Resp(400, "batch size exceeds limit (100)"), rows, seq, << >>)
    ELSE LET unsigned == FirstFailure([i \in 1..Len(batch.events) |-> SignatureCheck(batch.events[i])], 1)
             bad == FirstFailure([i \in 1..Len(batch.events) |-> SchemaCheck(batch.events[i])], 1)
         IN  IF unsigned /= Ok THEN Outcome(unsigned, rows, seq, << >>)
             ELSE IF bad /= Ok THEN Outcome(bad, rows, seq, << >>)
             ELSE validate_and_insert(rows, seq, batch, fail)

\* push_handler
push_handler(rows, seq, batch, fail) ==
    IF BatchLen(batch) > MAX_BATCH_SIZE
    THEN Outcome(Resp(400, "batch size exceeds limit (100)"), rows, seq, << >>)
    ELSE LET bad == FirstFailure([i \in 1..Len(batch.events) |-> SchemaCheck(batch.events[i])], 1)
         IN  IF bad /= Ok THEN Outcome(bad, rows, seq, << >>)
             ELSE validate_and_insert(rows, seq, batch, fail)

\* pull_handler: since and limit are Options
pull_handler(rows, since, limit) ==
    fetch_events_since(rows,
                       IF IsSome(since) THEN Unwrap(since) ELSE 0,
                       IF IsSome(limit) THEN Unwrap(limit) ELSE DEFAULT_PULL_LIMIT)

(***************************************************************************)
(* Peer registry (db.rs) and inbound replication (main.rs)                 *)
(* peers[r] maps a peer_id to [url, shared_secret, last_cursor_time,       *)
(* last_cursor_id, health]; the url is the name of the relay it reaches.   *)
(***************************************************************************)
\* validate_peer_token: the rows whose shared_secret is the token
validate_peer_token(table, token) ==
    {p \in DOMAIN table : table[p].shared_secret = token}

\* fetch_healthy_peers
fetch_healthy_peers(table) ==
    {p \in DOMAIN table : table[p].health \in {"healthy", "unknown"}}

\* update_peer_cursor whose UPDATE matches no row
update_peer_cursor_NoWrite(table, peer_id, last_time, last_id) == table

\* update_peer_cursor
update_peer_cursor(table, peer_id, last_time, last_id) ==
    IF peer_id \in DOMAIN table
    THEN [table EXCEPT ![peer_id].last_cursor_time = last_time,
                       ![peer_id].last_cursor_id = last_id]
    ELSE table

\* Request headers: each an Option; X-Hop holds [parses, n]
Headers(token, relay_id, hop) == [token |-> token, relay_id |-> relay_id, hop |-> hop]
Hop(n) == [parses |-> TRUE, n |-> n]
HopJunk == [parses |-> FALSE, n |-> 0]

\* replicate_handler without its loop check on X-Relay-Id
replicate_handler_NoLoopCheck(r, table, rows, seq, headers, batch, fail, lookupFails) ==
    IF ~IsSome(headers.token)
    THEN Outcome(Resp(401, "missing X-Peer-Token"), rows, seq, << >>)
    ELSE IF lookupFails
    THEN Outcome(Resp(500, "store error"), rows, seq, << >>)
    ELSE IF validate_peer_token(table, Unwrap(headers.token)) = {}
    THEN Outcome(Resp(401, "invalid peer token"), rows, seq, << >>)
    ELSE IF IsSome(headers.hop) /\ Unwrap(headers.hop).parses
            /\ Unwrap(headers.hop).n > MAX_HOPS
    THEN Outcome(Resp(400, "max hops exceeded"), rows, seq, << >>)
    ELSE validate_and_insert(rows, seq, batch, fail)

\* replicate_handler with the X-Hop check placed before the X-Relay-Id check
replicate_handler_HopFirst(r, table, rows, seq, headers, batch, fail, lookupFails) ==
    IF ~IsSome(headers.token)
    THEN Outcome(Resp(401, "missing X-Peer-Token"), rows, seq, << >>)
    ELSE IF lookupFails
    THEN Outcome(Resp(500, "store error"), rows, seq, << >>)
    ELSE IF validate_peer_token(table, Unwrap(headers.token)) = {}
    THEN Outcome(Resp(401, "invalid peer token"), rows, seq, << >>)
    ELSE IF IsSome(headers.hop) /\ Unwrap(headers.hop).parses
            /\ Unwrap(headers.hop).n > MAX_HOPS
    THEN Outcome(Resp(400, "max hops exceeded"), rows, seq, << >>)
    ELSE IF IsSome(headers.relay_id) /\ Unwrap(headers.relay_id) = RelayIdString(r)
    THEN Outcome(Resp(400, "loop detected: my own relay id"), rows, seq, << >>)
    ELSE validate_and_insert(rows, seq, batch, fail)

\* replicate_handler of relay r; lookupFails: the token query errors
replicate_handler(r, table, rows, seq, headers, batch, fail, lookupFails) ==
    IF ~IsSome(headers.token)
    THEN Outcome(Resp(401, "missing X-Peer-Token"), rows, seq, << >>)
    ELSE IF lookupFails
    THEN Outcome(Resp(500, "store error"), rows, seq, << >>)
    ELSE IF validate_peer_token(table, Unwrap(headers.token)) = {}
    THEN Outcome(Resp(401, "invalid peer token"), rows, seq, << >>)
    ELSE IF IsSome(headers.relay_id) /\ Unwrap(headers.relay_id) = RelayIdString(r)
    THEN Outcome(Resp(400, "loop detected: my own relay id"), rows, seq, << >>)
    ELSE IF IsSome(headers.hop) /\ Unwrap(headers.hop).parses
            /\ Unwrap(headers.hop).n > MAX_HOPS
    THEN Outcome(Resp(400, "max hops exceeded"), rows, seq, << >>)
    ELSE validate_and_insert(rows, seq, batch, fail)

(***************************************************************************)
(* State                                                                   *)
(*   store[r]    rows of relay r's events table                            *)
(*   nextSeq[r]  next value of the sequence behind server_seq              *)
(*   peers[r]    relay r's peers table                                     *)
(*   worker[r]   relay r's replication worker: pc, the peers still to      *)
(*               process in this cycle (as read at its start), the batch   *)
(*               fetched for the first of them                             *)
(*   acked[r][p] history: event ids of the batches peer p answered 2xx     *)
(*   last        how the latest step of a handler ended: the response it   *)
(*               sent, NoReply when it ended in a suspension               *)
(*   client      a client paging through /relay/pull: the cursor and limit *)
(*               it started with, the cursor it holds, the server_seq it   *)
(*               has been given, the pages it has fetched                  *)
(*   inflight[r] rows whose INSERT has taken its server_seq at relay r and *)
(*               has not committed: no other statement sees them yet       *)
(*   handlers[r] the ingestion handlers of relay r that are suspended      *)
(*               between two statements: the statements still to run, the  *)
(*               RETURNING list so far, who awaits the response            *)
(*   transit     requests whose sender's send() has returned an error and  *)
(*               that the network may still hand to the peer               *)
(***************************************************************************)
\* history kept with a response: whether the request body held an event_id
\* that was already stored, with the same or with other field values
Reinsert(rows, batch) ==
    LET again == {<<i, row>> \in (1..Len(batch.events)) \X rows :
                     row.event_id = batch.events[i].event_id}
    IN  IF again = {} THEN "none"
        ELSE IF \E x \in again : InputOf(x[2]) /= Rehash(batch.events[x[1]]) THEN "differs"
        ELSE "same"

Reply(op, r, o, next_cursor, rows, batch) ==
    [op |-> op, relay |-> r, status |-> o.status, msg |-> o.msg,
     seqs |-> o.inserted, next_cursor |-> next_cursor,
     len |-> BatchLen(batch), reinsert |-> Reinsert(rows, batch)]

NoReply == [op |-> "none", relay |-> "A", status |-> 0, msg |-> "", seqs |-> << >>,
            next_cursor |-> 0, len |-> 0, reinsert |-> "none"]

\* a row of the peers table as add_peer leaves it
NewPeer(url, secret, health) ==
    [url |-> url, shared_secret |-> secret, last_cursor_time |-> Epoch,
     last_cursor_id |-> NilUuid, health |-> health]

NewClient(start, limit) ==
    [start |-> start, limit |-> limit, cursor |-> start, seen |-> << >>, pages |-> 0,
     done |-> FALSE]

NoClient == [NewClient(0, 0) EXCEPT !.done = TRUE]

IdleWorker == [pc |-> "sleep", todo |-> << >>, batch |-> << >>, log |-> "", status |-> 0]

\* A request is [headers, batch, fail, lookupFails]: what the sender sends and
\* which store call, if any, errors while it is served.
Request(headers, batch, fail, lookupFails) ==
    [headers |-> headers, batch |-> batch, fail |-> fail, lookupFails |-> lookupFails]

Tail1(s) == SubSeq(s, 2, Len(s))

\* Statements ending the loop of insert_events after its first statement
Statements_FirstOnly(batch) == <<Rehash(batch.events[1])>>

\* the statements insert_events runs for a body, in order: one INSERT per
\* element of the array, each binding the hash validate_and_insert computed
Statements(batch) ==
    [i \in 1..BatchLen(batch) |->
        Rehash(batch.events[IF i <= Len(batch.events) THEN i ELSE Len(batch.events)])]

\* A handler suspended in insert_events.  from: "client", or the relay whose
\* worker awaits the response; fail as in insert_events, counted from the
\* next statement; len and reinsert: history of the request, kept for last
Handler(id, op, from, events, fail, len, reinsert) ==
    [id |-> id, op |-> op, from |-> from, events |-> events, inserted |-> << >>,
     fail |-> fail, len |-> len, reinsert |-> reinsert]

\* the statements the suspended handlers of relay r have still to run
RECURSIVE Pending(_)
Pending(hs) ==
    IF hs = {} THEN 0
    ELSE LET h == CHOOSE x \in hs : TRUE IN Len(h.events) + Pending(hs \ {h})

\* a request whose handler will run n statements is taken up when the
\* sequence has n values left below the bound and, if it suspends between
\* two of them, fewer than MaxHandlers handlers are suspended
Admits(r, n) ==
    /\ nextSeq[r] + Pending(handlers[r]) + n <= MaxSeq + 1
    /\ n <= 1 \/ Cardinality(handlers[r]) < MaxHandlers

\* a name for a handler that none of the suspended ones bears
FreeId(r) == CHOOSE id \in 1..(MaxHandlers + 1) : \A h \in handlers[r] : h.id /= id

\* the HTTP response reaches whoever awaits it: a worker suspended in
\* send() resumes with the status.  workers: the workers' states otherwise.
Answered(workers, from, status) ==
    IF from \in Relays
    THEN [workers EXCEPT ![from] = [@ EXCEPT !.pc = "reply", !.status = status]]
    ELSE workers

\* One pass of the loop of insert_events for handler h of relay r: its next
\* INSERT runs against the rows as they are now.  After the last statement,
\* or on a store error, the handler responds; otherwise it is suspended
\* again.
RunStatement(r, h) ==
    LET acc == insert_events(store[r], nextSeq[r],
                             [events |-> <<h.events[1]>>, pad |-> 0],
                             IF h.fail = 1 THEN 1 ELSE 0)
        rest == [h EXCEPT !.events = Tail1(@),
                          !.inserted = @ \o acc.inserted,
                          !.fail = IF @ = 0 THEN 0 ELSE @ - 1]
        done == acc.err \/ rest.events = << >>
        resp == IF acc.err THEN Resp(500, "store error") ELSE Ok
    IN  /\ store' = [store EXCEPT ![r] = acc.rows]
        /\ nextSeq' = [nextSeq EXCEPT ![r] = acc.seq]
        /\ handlers' = [handlers EXCEPT ![r] =
                           (@ \ {h}) \cup (IF done THEN {} ELSE {rest})]
        /\ last' = IF done
                   THEN [op |-> h.op, relay |-> r, status |-> resp.status,
                         msg |-> resp.msg, seqs |-> rest.inserted, next_cursor |-> 0,
                         len |-> h.len, reinsert |-> h.reinsert]
                   ELSE NoReply
        /\ worker' = IF done THEN Answered(worker, h.from, resp.status) ELSE worker

\* POST /relay/push to relay r, up to its first suspension.  The checks touch
\* no shared state and the first INSERT follows them without a suspension: a
\* rejected or empty body is answered in this step, any other body runs its
\* first statement.  clean: what the handler leaves behind when no statement
\* errors.
PushReq(r, requests) ==
    \E req \in requests :
        LET clean == push_handler(store[r], nextSeq[r], req.batch, 0)
            h == Handler(FreeId(r), "push", "client", Statements(req.batch), req.fail,
                         BatchLen(req.batch), Reinsert(store[r], req.batch))
        IN  IF clean.status /= 200 \/ req.batch.events = << >>
            THEN /\ store' = [store EXCEPT ![r] = clean.rows]
                 /\ nextSeq' = [nextSeq EXCEPT ![r] = clean.seq]
                 /\ last' = Reply("push", r, clean, 0, store[r], req.batch)
                 /\ UNCHANGED <<peers, worker, acked, client, inflight, handlers, transit>>
            ELSE /\ Admits(r, BatchLen(req.batch))
                 /\ RunStatement(r, h)
                 /\ UNCHANGED <<peers, acked, client, inflight, transit>>

\* POST /relay/replicate arrives at relay r from `from`: the handler runs up
\* to its first suspension, the token lookup, and on to the second, the first
\* INSERT.  A request that fails a gate or a signature check, or whose array
\* is empty, is answered in this step.  workers: the workers' states after
\* the sender's part of the step.
Arrive(r, req, from, workers) ==
    LET clean == replicate_handler(r, peers[r], store[r], nextSeq[r],
                                   req.headers, req.batch, 0, req.lookupFails)
        h == Handler(FreeId(r), "replicate", from, Statements(req.batch), req.fail,
                     BatchLen(req.batch), Reinsert(store[r], req.batch))
    IN  IF clean.status /= 200 \/ req.batch.events = << >>
        THEN /\ store' = [store EXCEPT ![r] = clean.rows]
             /\ nextSeq' = [nextSeq EXCEPT ![r] = clean.seq]
             /\ last' = Reply("replicate", r, clean, 0, store[r], req.batch)
             /\ worker' = Answered(workers, from, clean.status)
             /\ UNCHANGED handlers
        ELSE /\ Cardinality(handlers[r]) < MaxHandlers
             /\ nextSeq[r] + Pending(handlers[r]) + BatchLen(req.batch) <= MaxSeq + 1
             /\ handlers' = [handlers EXCEPT ![r] = @ \cup {h}]
             /\ worker' = IF from \in Relays
                          THEN [workers EXCEPT ![from].pc = "wait"] ELSE workers
             /\ last' = NoReply
             /\ UNCHANGED <<store, nextSeq>>

\* POST /relay/replicate to relay r, from any sender
ReplicateReq(r, requests) ==
    \E req \in requests :
        /\ Arrive(r, req, "client", worker)
        /\ UNCHANGED <<peers, acked, client, inflight, transit>>

\* a suspended handler of relay r resumes and runs its next statement
InsertNext(r) ==
    \E h \in handlers[r] :
        /\ RunStatement(r, h)
        /\ UNCHANGED <<peers, acked, client, inflight, transit>>

\* the operator's `peer add`: add_peer inserts a row under a fresh peer_id
AddPeer(r, ids, rows) ==
    \E p \in ids \ DOMAIN acked[r] : \E row \in rows :
        /\ peers' = [peers EXCEPT ![r] =
                        [q \in DOMAIN @ \cup {p} |-> IF q = p THEN row ELSE @[q]]]
        /\ acked' = [acked EXCEPT ![r] =
                        [q \in DOMAIN @ \cup {p} |-> IF q = p THEN {} ELSE @[q]]]
        /\ UNCHANGED <<store, nextSeq, worker, last, client, inflight, handlers, transit>>

\* the operator's `peer remove`: remove_peer deletes the row of a peer_id
RemovePeer(r) ==
    \E p \in DOMAIN peers[r] :
        /\ peers' = [peers EXCEPT ![r] = [q \in DOMAIN @ \ {p} |-> @[q]]]
        /\ UNCHANGED <<store, nextSeq, worker, acked, last, client, inflight, handlers,
                       transit>>

SeqsOf(events) == [i \in 1..Len(events) |-> events[i].server_seq]

\* GET /relay/pull from relay r
PullReq(r, sinces, limits) ==
    \E since \in sinces :
      \E limit \in limits :
        LET res == pull_handler(store[r], since, limit)
            o == Outcome(IF res.err THEN Resp(500, "store error") ELSE Ok,
                         store[r], nextSeq[r], SeqsOf(res.events))
        IN  /\ last' = Reply("pull", r, o, res.next_cursor, store[r], [events |-> << >>, pad |-> 0])
            /\ UNCHANGED <<store, nextSeq, peers, worker, acked, client, inflight, handlers, transit>>

\* the client fetches its next page from relay r and keeps next_cursor; it
\* stops at the first empty page
PullPage(r) ==
    /\ ~client.done
    /\ \E res \in {pull_handler(store[r], Some(client.cursor), Some(client.limit))} :
         /\ ~res.err
         /\ client' = [client EXCEPT !.cursor = res.next_cursor,
                                     !.seen = @ \o SeqsOf(res.events),
                                     !.pages = @ + 1,
                                     !.done = (res.events = << >>)]
         /\ last' = Reply("pull", r,
                          Outcome(Ok, store[r], nextSeq[r], SeqsOf(res.events)),
                          res.next_cursor, store[r], [events |-> << >>, pad |-> 0])
    /\ UNCHANGED <<store, nextSeq, peers, worker, acked, inflight, handlers, transit>>

(***************************************************************************)
(* Ingestion of one relay under arbitrary requests                         *)
(***************************************************************************)
Ev(id, key, sig, hash, type, payload, occ) ==
    [event_id |-> id, author_pubkey |-> key, signature |-> sig, payload_hash |-> hash,
     event_type |-> type, payload_json |-> payload, occurred_at |-> occ]

\* an event signed by key over its own payload, with the hash a client computes
Signed(id, key, type, payload, occ) ==
    Ev(id, key, SigBy(key, payload_bytes(payload)), compute_payload_hash(payload),
       type, payload, occ)

BogusHash == <<"bogus">>

PFull == Some(Obj(Some(JStr("c")), Some(JNum("1")), Some(JNum("2"))))
PNoEnd == Some(Obj(Some(JStr("c")), Some(JNum("1")), None))
PEmptyCid == Some(Obj(Some(JStr("")), None, None))
PNumCid == Some(Obj(Some(JNum("7")), None, None))

Snapshot == Some("value.snapshot")
ReadCompleted == Some("read.completed")
Legacy == Some("note")

\* events that pass every check of /relay/push
GoodEvents ==
    { [Signed(1, "K1", None, None, Some(1)) EXCEPT !.payload_hash = BogusHash],
      Signed(1, "K2", Snapshot, PFull, None),
      Signed(2, "K1", Legacy, PNoEnd, Some(1)) }

\* events with a valid signature that the schema rule of /relay/push rejects
SchemaBadEvents ==
    { Signed(1, "K1", Snapshot, PNoEnd, Some(1)),
      Signed(1, "K1", ReadCompleted, None, Some(1)),
      Signed(2, "K1", ReadCompleted, PEmptyCid, Some(1)),
      Signed(2, "K1", Snapshot, PNumCid, Some(1)) }

\* events whose key or signature is malformed or does not verify
CryptoBadEvents ==
    { [Signed(1, "K1", None, PFull, Some(1)) EXCEPT !.author_pubkey = "zz"],
      [Signed(1, "K1", None, PFull, Some(1)) EXCEPT !.author_pubkey = "NP"],
      [Signed(1, "K1", None, PFull, Some(1)) EXCEPT !.author_pubkey = "K2"],
      [Signed(1, "K1", None, PFull, Some(1)) EXCEPT !.signature = SigBadHex],
      [Signed(1, "K1", None, PFull, Some(1)) EXCEPT !.signature = SigShort],
      [Signed(2, "K1", None, PFull, Some(1)) EXCEPT !.signature = SigZeros],
      [Signed(2, "K1", None, PFull, Some(1)) EXCEPT !.payload_json = PNoEnd],
      [Signed(2, "K1", Snapshot, PNoEnd, Some(1)) EXCEPT !.signature = SigZeros] }

\* an event signed by K1 whose author_pubkey is hex of one byte
ShortKeyEvent ==
    [Signed(2, "K1", None, PFull, Some(1)) EXCEPT !.author_pubkey = "ab"]

\* events judged against the key of 32 zero bytes: the one whose key is too
\* short, and one sent with that key
ZeroKeyEvents ==
    { ShortKeyEvent,
      [ShortKeyEvent EXCEPT !.author_pubkey = ZeroKey] }

IngestEvents == GoodEvents \cup SchemaBadEvents \cup CryptoBadEvents \cup ZeroKeyEvents

Batch(events, pad) == [events |-> events, pad |-> pad]

\* the number of copies that takes a one-element array to the limit
PadToLimit == MAX_BATCH_SIZE - 1

\* one event of each kind, to pair with another event in a two-element array
PairEvents ==
    GoodEvents
    \cup { Signed(1, "K1", Snapshot, PNoEnd, Some(1)),
           [Signed(2, "K1", None, PFull, Some(1)) EXCEPT !.signature = SigZeros],
           ShortKeyEvent }

IngestBatches ==
    {Batch(<< >>, 0)}
    \cup {Batch(<<e>>, 0) : e \in IngestEvents}
    \cup {Batch(<<e>>, PadToLimit) : e \in GoodEvents}
    \cup {Batch(<<e1, e2>>, 0) : e1 \in GoodEvents, e2 \in PairEvents}
    \cup {Batch(<<e1, e2>>, 0) : e1 \in PairEvents \ GoodEvents, e2 \in SchemaBadEvents}
    \cup {Batch(<<e1, e2>>, PadToLimit) : e1 \in GoodEvents, e2 \in PairEvents \ GoodEvents}

\* arrays of good events, served with a store error at statement fail
FailingBatches ==
    {Batch(<<e>>, 0) : e \in GoodEvents}
    \cup {Batch(<<e1, e2>>, 0) : e1 \in GoodEvents, e2 \in GoodEvents}

PeerSecret == "sAB"

NoHeaders == Headers(None, None, None)

IngestHeaders ==
    {Headers(t, i, h) : t \in {None, Some(PeerSecret), Some("wrong")},
                        i \in {None, Some("A"), Some("B")},
                        h \in {None, Some(Hop(1)), Some(Hop(MAX_HOPS + 1)), Some(HopJunk)}}

\* headers that pass every gate at relay A
PeerHeaders == Headers(Some(PeerSecret), Some("B"), Some(Hop(1)))

PushRequests ==
    {Request(NoHeaders, b, 0, FALSE) : b \in IngestBatches}
    \cup {Request(NoHeaders, b, f, FALSE) : b \in FailingBatches, f \in 1..2}

ProbeEvent == Signed(2, "K1", Legacy, PNoEnd, Some(1))

\* the good event sent with a hash that is not the hash of its payload
HashProbe == [Signed(1, "K1", None, None, Some(1)) EXCEPT !.payload_hash = BogusHash]

ReplicateRequests ==
    {Request(PeerHeaders, b, 0, FALSE) : b \in IngestBatches}
    \cup {Request(PeerHeaders, b, f, FALSE) : b \in FailingBatches, f \in 1..2}
    \cup {Request(h, Batch(<<ProbeEvent>>, 0), 0, FALSE) : h \in IngestHeaders}
    \cup {Request(PeerHeaders, Batch(<<ProbeEvent>>, 0), 0, TRUE)}
    \cup {Request(Headers(Some("s2"), Some("B"), Some(Hop(1))), Batch(<<ProbeEvent>>, 0),
                  0, FALSE)}

\* A and B peered to each other with one shared secret
MeshPeers ==
    [r \in Relays |->
        IF r = "A" THEN [pB |-> NewPeer("B", PeerSecret, "healthy")]
        ELSE [pA |-> NewPeer("A", PeerSecret, "unknown")]]

\* the relays empty, A and B peered to each other
InitEmpty ==
    /\ store = [r \in Relays |-> {}]
    /\ nextSeq = [r \in Relays |-> 1]
    /\ peers = MeshPeers
    /\ worker = [r \in Relays |-> IdleWorker]
    /\ acked = [r \in Relays |-> [p \in DOMAIN MeshPeers[r] |-> {}]]
    /\ last = NoReply
    /\ inflight = [r \in Relays |-> {}]
    /\ handlers = [r \in Relays |-> {}]
    /\ transit = {}
    /\ client = NoClient

\* the row `peer add` writes for a second peer
AddedPeer == NewPeer("B", "s2", "unknown")

\* The bodies sent in this specification: two events that pass every check,
\* alone and in one array, and an event whose signature does not verify
IngestBodies ==
    {Batch(<<HashProbe>>, 0), Batch(<<ProbeEvent>>, 0), Batch(<<HashProbe, ProbeEvent>>, 0),
     Batch(<<[Signed(2, "K1", None, PFull, Some(1)) EXCEPT !.signature = SigZeros]>>, 0)}

\* a store error strikes the statements of the two-event array only
Served(requests) ==
    {req \in requests :
        req.batch \in IngestBodies /\ (req.fail = 0 \/ BatchLen(req.batch) = 2)}

\* headers that differ from the passing ones in at most one header
OneHeaderOff(headers) ==
    Cardinality({f \in {"token", "relay_id", "hop"} : headers[f] /= PeerHeaders[f]}) <= 1

\* clients and peers send every body; a peer's request has at most one
\* header that a gate can stop
PushIngest == PushReq("A", Served(PushRequests))
ReplicateIngest ==
    ReplicateReq("A", {req \in Served(ReplicateRequests) : OneHeaderOff(req.headers)})
InsertIngest == InsertNext("A")
PullIngest == PullReq("A", {None}, {None})
AddPeerIngest == AddPeer("A", {"pN"}, {AddedPeer})
RemovePeerIngest == RemovePeer("A")

NextIngest ==
    PushIngest \/ ReplicateIngest \/ InsertIngest \/ PullIngest
    \/ AddPeerIngest \/ RemovePeerIngest

SpecIngest == InitEmpty /\ [][NextIngest]_vars

\* Relay A under pushes only: of every array of at most one event, and of the
\* longer arrays that begin with the first good event or with an event that
\* fails a check
PushAny ==
    PushReq("A", {req \in PushRequests :
                     \/ Len(req.batch.events) <= 1
                     \/ req.batch.events[1] \notin GoodEvents \ {HashProbe}})

NextPush == PushAny \/ InsertIngest

SpecPush == InitEmpty /\ [][NextPush]_vars

(***************************************************************************)
(* Pushes to relay A of validly signed events of every event_type and      *)
(* payload shape                                                           *)
(***************************************************************************)
SchemaTypes ==
    {None, Legacy, Some("")} \cup {Some(t) : t \in ValueProtocolTypes}

SchemaPayloads ==
    {None}
    \cup {Some(Obj(cid, ws, we)) :
            cid \in {None, Some(JStr("c")), Some(JStr("")), Some(JNum("7"))},
            ws \in {None, Some(JNum("1"))},
            we \in {None, Some(JStr("2"))}}

SchemaEvents == {Signed(1, "K1", t, p, Some(1)) : t \in SchemaTypes, p \in SchemaPayloads}

\* each event alone, and before and after an event that passes every check
SchemaBatches ==
    {Batch(<<e>>, 0) : e \in SchemaEvents}
    \cup {Batch(<<ProbeEvent, e>>, 0) : e \in SchemaEvents}
    \cup {Batch(<<e, ProbeEvent>>, 0) : e \in SchemaEvents}

SchemaRequests == {Request(NoHeaders, b, 0, FALSE) : b \in SchemaBatches}

\* the requests clients send in this specification: the one-event arrays
SchemaPushes == {req \in SchemaRequests : Len(req.batch.events) = 1}

InitSchema == InitEmpty

NextSchema == PushReq("A", SchemaPushes)

SpecSchema == InitSchema /\ [][NextSchema]_vars

(***************************************************************************)
(* A client paging through the pull endpoint of a relay that nothing else  *)
(* touches                                                                 *)
(***************************************************************************)
\* the stores whose rows carry the server_seq values Q; event ids run
\* against the sequence
PullStore(Q) ==
    {RowOf(Signed(MaxSeq + 1 - s, "K1", None, None, Some(1)), s) : s \in Q}

InitPull ==
    /\ \E Q \in SUBSET (1..MaxSeq) :
          store = [r \in Relays |-> IF r = "A" THEN PullStore(Q) ELSE {}]
    /\ nextSeq = [r \in Relays |-> IF r = "A" THEN MaxSeq + 1 ELSE 1]
    /\ peers = MeshPeers
    /\ worker = [r \in Relays |-> IdleWorker]
    /\ acked = [r \in Relays |-> [p \in DOMAIN MeshPeers[r] |-> {}]]
    /\ last = NoReply
    /\ inflight = [r \in Relays |-> {}]
    /\ handlers = [r \in Relays |-> {}]
    /\ transit = {}
    /\ \E start \in 0..MaxSeq : \E limit \in 1..MaxLimit :
          client = NewClient(start, limit)

NextPull == PullPage("A")

SpecPull == InitPull /\ [][NextPull]_vars

(***************************************************************************)
(* Pushes served concurrently with a client that pages through the pull    *)
(* endpoint.  Every handler runs its statements on its own pool            *)
(* connection, each statement in its own transaction: an INSERT takes its  *)
(* server_seq when it runs and its row is seen by other statements once it *)
(* has committed; the sequence is not rolled back and does not wait.  An   *)
(* INSERT whose event_id is held by an uncommitted row takes its value     *)
(* too, and then waits for that row.                                       *)
(***************************************************************************)
MaxPolls == 3

\* A handler of /relay/push inside insert_events: the statements of its
\* array, the index of the next one, the server_seq the INSERT that is
\* running has taken (None between two statements), the inserted_seqs so far
Inserting(id, array) ==
    [id |-> id, array |-> array, next |-> 1, taken |-> None, inserted |-> << >>]

\* the 200 of push_handler once the loop of handler h has ended
Accepted(r, h, rows, seq) ==
    Reply("push", r, Outcome(Ok, rows, seq, h.inserted), 0,
          {row \in rows : row.server_seq \notin Range(h.inserted)}, Batch(h.array, 0))

\* handler h of relay r has run its statement: it is suspended before the
\* next one or, after the last, responds
Proceed(r, h, rows, seq) ==
    LET ended == h.next > Len(h.array)
    IN  /\ handlers' = [handlers EXCEPT ![r] = {g \in @ : g.id /= h.id}
                                                  \cup (IF ended THEN {} ELSE {h})]
        /\ last' = IF ended THEN Accepted(r, h, rows, seq) ELSE NoReply

\* An INSERT that ran while an uncommitted row held its event_id has taken
\* its server_seq and waited in the ON CONFLICT check; the row it waited for
\* has committed, so the statement returns nothing and the loop goes on.
\* The value it took stays consumed.
EndWait(r) ==
    \E h \in handlers[r] :
        /\ h.taken /= None
        /\ \A row \in inflight[r] : row.server_seq /= Unwrap(h.taken)
        /\ h.array[h.next].event_id \in StoredIds(store[r])
        /\ Proceed(r, [h EXCEPT !.next = @ + 1, !.taken = None], store[r], nextSeq[r])
        /\ UNCHANGED <<store, nextSeq, peers, worker, acked, client, inflight, transit>>

ConcurrentEvents == {Signed(id, "K1", None, None, Some(1)) : id \in 1..MaxSeq}

\* push_handler of a one-event array up to the point where its INSERT has
\* run: the gates, then the statement against the committed rows.  A
\* conflict with a committed row consumes a value and is answered at once; an
\* INSERT whose event_id is held by an uncommitted row takes its value and
\* waits for that row.
BeginInsert(r) ==
    \E ev \in ConcurrentEvents :
        LET batch == Batch(<<ev>>, 0)
            held == ev.event_id \in StoredIds(inflight[r])
            acc == InsertOne([rows |-> store[r], seq |-> nextSeq[r],
                              inserted |-> << >>, err |-> FALSE], Rehash(ev))
            id == CHOOSE i \in 1..(MaxSeq + 1) : \A h \in handlers[r] : h.id /= i
        IN  /\ BatchLen(batch) <= MAX_BATCH_SIZE
            /\ SchemaCheck(ev) = Ok
            /\ SignatureCheck(ev) = Ok
            /\ acc.seq <= MaxSeq + 1
            /\ nextSeq' = [nextSeq EXCEPT ![r] = acc.seq]
            /\ inflight' = [inflight EXCEPT ![r] =
                               IF held THEN @ ELSE @ \cup (acc.rows \ store[r])]
            /\ handlers' = [handlers EXCEPT ![r] =
                               IF held
                               THEN @ \cup {[Inserting(id, <<Rehash(ev)>>)
                                               EXCEPT !.taken = Some(nextSeq[r])]}
                               ELSE @]
            /\ last' = IF acc.inserted = << >>
                       THEN Reply("push", r, Outcome(Ok, store[r], acc.seq, << >>),
                                  0, store[r], batch)
                       ELSE last
            /\ UNCHANGED <<store, peers, worker, acked, client, transit>>

\* the INSERT of an uncommitted row commits and its push is answered
CommitInsert(r) ==
    \E row \in inflight[r] :
        /\ store' = [store EXCEPT ![r] = @ \cup {row}]
        /\ inflight' = [inflight EXCEPT ![r] = @ \ {row}]
        /\ last' = Reply("push", r,
                         Outcome(Ok, store'[r], nextSeq[r], <<row.server_seq>>),
                         0, store[r], Batch(<<InputOf(row)>>, 0))
        /\ UNCHANGED <<nextSeq, peers, worker, acked, client, handlers, transit>>

\* the client fetches its next page from relay r and keeps next_cursor; it
\* goes on polling after an empty page
PullPoll(r) ==
    /\ client.pages < MaxPolls
    /\ \E res \in {pull_handler(store[r], Some(client.cursor), Some(client.limit))} :
         /\ ~res.err
         /\ client' = [client EXCEPT !.cursor = res.next_cursor,
                                     !.seen = @ \o SeqsOf(res.events),
                                     !.pages = @ + 1]
         /\ last' = Reply("pull", r,
                          Outcome(Ok, store[r], nextSeq[r], SeqsOf(res.events)),
                          res.next_cursor, store[r], [events |-> << >>, pad |-> 0])
    /\ UNCHANGED <<store, nextSeq, peers, worker, acked, inflight, handlers, transit>>

InitConcurrent ==
    /\ store = [r \in Relays |-> {}]
    /\ nextSeq = [r \in Relays |-> 1]
    /\ peers = MeshPeers
    /\ worker = [r \in Relays |-> IdleWorker]
    /\ acked = [r \in Relays |-> [p \in DOMAIN MeshPeers[r] |-> {}]]
    /\ last = NoReply
    /\ inflight = [r \in Relays |-> {}]
    /\ handlers = [r \in Relays |-> {}]
    /\ transit = {}
    /\ \E limit \in 1..MaxLimit : client = NewClient(0, limit)

BeginConcurrent == BeginInsert("A")
CommitConcurrent == CommitInsert("A")
PollConcurrent == PullPoll("A")

WaitConcurrent == EndWait("A")

NextConcurrent == BeginConcurrent \/ CommitConcurrent \/ WaitConcurrent \/ PollConcurrent

SpecConcurrent == InitConcurrent /\ [][NextConcurrent]_vars

(***************************************************************************)
(* Pushes of arrays of one or two events served concurrently, statement by *)
(* statement.  Each INSERT of insert_events is awaited: it takes its       *)
(* server_seq from the sequence when it runs and returns it once its row   *)
(* has committed; the handler then goes on to the next element of its      *)
(* array.  Statements of different handlers overlap.                       *)
(***************************************************************************)
SequenceBatches ==
    {Batch(<<e>>, 0) : e \in ConcurrentEvents}
    \cup {Batch(<<e1, e2>>, 0) : e1 \in ConcurrentEvents, e2 \in ConcurrentEvents}

\* the statements the handlers hs have not begun yet
RECURSIVE Unrun(_)
Unrun(hs) ==
    IF hs = {} THEN 0
    ELSE LET h == CHOOSE x \in hs : TRUE
         IN  (Len(h.array) - h.next + (IF h.taken = None THEN 1 ELSE 0)) + Unrun(hs \ {h})

\* POST /relay/push of an array that passes the gates of push_handler and
\* the checks of validate_and_insert: the handler enters insert_events
PushArray(r, batches) ==
    \E batch \in batches :
        LET clean == push_handler(store[r], nextSeq[r], batch, 0)
            id == CHOOSE i \in 1..(MaxSeq + 1) : \A h \in handlers[r] : h.id /= i
        IN  /\ clean.status = 200
            /\ nextSeq[r] + Unrun(handlers[r]) + BatchLen(batch) <= MaxSeq + 1
            /\ handlers' = [handlers EXCEPT ![r] =
                               @ \cup {Inserting(id, Statements(batch))}]
            /\ last' = NoReply
            /\ UNCHANGED <<store, nextSeq, peers, worker, acked, client, inflight, transit>>

\* The next INSERT of a handler runs against the committed rows and takes
\* the next value of the sequence.  A conflict with a committed row returns
\* nothing and the loop goes on; an INSERT whose event_id is held by an
\* uncommitted row has its value and waits for that row.
BeginStatement(r) ==
    \E h \in handlers[r] :
        LET ev == h.array[h.next]
            acc == InsertOne([rows |-> store[r], seq |-> nextSeq[r],
                              inserted |-> << >>, err |-> FALSE], ev)
        IN  /\ h.taken = None
            /\ nextSeq' = [nextSeq EXCEPT ![r] = acc.seq]
            /\ inflight' = [inflight EXCEPT ![r] =
                               IF ev.event_id \in StoredIds(@) THEN @
                               ELSE @ \cup (acc.rows \ store[r])]
            /\ IF acc.inserted = << >>
               THEN Proceed(r, [h EXCEPT !.next = @ + 1], store[r], acc.seq)
               ELSE /\ handlers' = [handlers EXCEPT ![r] =
                                       (@ \ {h}) \cup {[h EXCEPT !.taken = Some(acc.inserted[1])]}]
                    /\ last' = NoReply
            /\ UNCHANGED <<store, peers, worker, acked, client, transit>>

\* The running INSERT of a handler commits: its row is seen by every later
\* statement and its server_seq is returned and pushed on inserted_seqs.
CommitStatement(r) ==
    \E h \in handlers[r] : \E row \in inflight[r] :
        /\ h.taken = Some(row.server_seq)
        /\ store' = [store EXCEPT ![r] = @ \cup {row}]
        /\ inflight' = [inflight EXCEPT ![r] = @ \ {row}]
        /\ Proceed(r, [h EXCEPT !.next = @ + 1, !.taken = None,
                                !.inserted = Append(@, row.server_seq)],
                   store'[r], nextSeq[r])
        /\ UNCHANGED <<nextSeq, peers, worker, acked, client, transit>>

PushSequence == PushArray("A", SequenceBatches)
BeginSequence == BeginStatement("A")
CommitSequence == CommitStatement("A")

WaitSequence == EndWait("A")

NextSequence == PushSequence \/ BeginSequence \/ CommitSequence \/ WaitSequence

SpecSequence == InitEmpty /\ [][NextSequence]_vars

(***************************************************************************)
(* Replication worker (main.rs), one step per suspension point             *)
(***************************************************************************)
\* the orders in which a query may return a set of rows
RECURSIVE Orders(_)
Orders(S) ==
    IF S = {} THEN {<< >>}
    ELSE UNION {{<<x>> \o rest : rest \in Orders(S \ {x})} : x \in S}

\* a Peer value as fetch_healthy_peers returns it
PeerValue(table, p) ==
    [peer_id |-> p, url |-> table[p].url, shared_secret |-> table[p].shared_secret,
     last_cursor_time |-> table[p].last_cursor_time,
     last_cursor_id |-> table[p].last_cursor_id]

\* NextPeer with break in place of continue: a failure for one peer ends
\* the cycle
NextPeer_Break(w, log) ==
    [pc |-> "peers",
     todo |-> IF log \in {"", "Replicated"} THEN Tail1(w.todo) ELSE << >>,
     batch |-> << >>, log |-> log, status |-> 0]

\* the worker goes on to the next peer of its cycle; log is the line it
\* has just logged about the peer it leaves ("" when it logs nothing)
NextPeer(w, log) ==
    [pc |-> "peers", todo |-> Tail1(w.todo), batch |-> << >>, log |-> log, status |-> 0]

\* end of the sleep: the healthy peers are read, or the query errors and
\* the cycle is skipped
WorkerWake(r, oks) ==
    /\ worker[r].pc = "sleep"
    /\ \E ok \in oks : \E order \in Orders(fetch_healthy_peers(peers[r])) :
         worker' = [worker EXCEPT ![r] =
                       IF ok
                       THEN [pc |-> "peers",
                             todo |-> [i \in 1..Len(order) |-> PeerValue(peers[r], order[i])],
                             batch |-> << >>, log |-> "", status |-> 0]
                       ELSE [IdleWorker EXCEPT !.log = "Worker failed to fetch peers"]]
    /\ UNCHANGED <<store, nextSeq, peers, acked, last, client, inflight, handlers, transit>>

\* head of the for loop: the batch for the next peer is fetched; on a store
\* error or an empty batch the loop continues with the peer after it
WorkerFetch(r, oks) ==
    /\ worker[r].pc = "peers"
    /\ \E ok \in oks :
         LET w == worker[r]
             peer == w.todo[1]
             events_to_send ==
                 fetch_replication_batch(store[r], peer.last_cursor_time,
                                         peer.last_cursor_id, REPLICATION_BATCH_LIMIT)
         IN  worker' = [worker EXCEPT ![r] =
                 IF w.todo = << >> THEN IdleWorker
                 ELSE IF ~ok THEN NextPeer(w, "Failed to fetch replication batch")
                 ELSE IF events_to_send = << >> THEN NextPeer(w, "")
                 ELSE [w EXCEPT !.pc = "post", !.batch = events_to_send, !.log = ""]]
    /\ UNCHANGED <<store, nextSeq, peers, acked, last, client, inflight, handlers, transit>>

\* the headers the worker sets on its POST
WorkerHeaders(r, peer) ==
    Headers(Some(peer.shared_secret), Some(RelayIdString(r)), Some(Hop(1)))

\* the POST body
WorkerPayload(events_to_send) ==
    Batch([i \in 1..Len(events_to_send) |-> InputOf(events_to_send[i])], 0)

Times == {1, 2}

\* last.occurred_at.unwrap_or(chrono::Utc::now()): the times the cursor may get
CursorTimes(lastRow) ==
    IF IsSome(lastRow.occurred_at) THEN {Unwrap(lastRow.occurred_at)} ELSE Times

\* resp.status().is_success()
is_success(status) == status >= 200 /\ status <= 299

\* AdvancesCursor without the is_success test on the response
AdvancesCursor_AnyStatus(net, status) == net = "up"

\* the match on the result of the POST: whether the cursor is advanced
AdvancesCursor(net, status) == net = "up" /\ is_success(status)

\* the line logged for the peer after the POST
PostLog(net, status, cursorOk) ==
    IF net /= "up" THEN "Replication request failed"
    ELSE IF ~is_success(status) THEN "Replication failed: Status"
    ELSE IF ~cursorOk THEN "Failed to update cursor"
    ELSE "Replicated"

\* the store errors that may strike at the peer while it serves one POST
PostFaults == {"none", "lookup", "insert"}

\* what a host that is none of the modelled relays may answer to the POST
ExternalStatuses == {200, 401, 500}

\* The POST, up to the suspension in send().  net: "down" (the request never
\* arrives and send() returns an error), "lost" (send() returns an error and
\* the request stays with the network, which may still hand it to the peer)
\* or "up" (the peer takes the request up); fault: the store call that errors
\* at the peer.  A transport error is logged and the loop continues;
\* otherwise the worker stays suspended until the peer's handler has
\* responded or the connection fails.  A peer whose url names none of the
\* modelled relays is any HTTP server.
WorkerPost(r, nets, faults) ==
    /\ worker[r].pc = "post"
    /\ \E net \in nets : \E fault \in faults :
         LET w == worker[r]
             peer == w.todo[1]
             to == peer.url
             req == Request(WorkerHeaders(r, peer), WorkerPayload(w.batch),
                            IF fault = "insert" THEN 1 ELSE 0, fault = "lookup")
         IN  IF net = "down"
             THEN /\ worker' = [worker EXCEPT ![r] = NextPeer(w, PostLog(net, 0, TRUE))]
                  /\ UNCHANGED <<store, nextSeq, peers, acked, last, client, inflight,
                                 handlers, transit>>
             ELSE IF to \notin Relays
             THEN /\ \E status \in ExternalStatuses :
                       worker' = [worker EXCEPT ![r] =
                                     IF net = "lost" THEN NextPeer(w, PostLog(net, 0, TRUE))
                                     ELSE [w EXCEPT !.pc = "reply", !.status = status]]
                  /\ UNCHANGED <<store, nextSeq, peers, acked, last, client, inflight,
                                 handlers, transit>>
             ELSE IF net = "lost"
             THEN /\ Cardinality(transit) < MaxTransit
                  /\ worker' = [worker EXCEPT ![r] = NextPeer(w, PostLog(net, 0, TRUE))]
                  /\ transit' = transit \cup {[to |-> to, headers |-> req.headers,
                                                batch |-> req.batch]}
                  /\ UNCHANGED <<store, nextSeq, peers, acked, last, client, inflight,
                                 handlers>>
             ELSE /\ Arrive(to, req, r, worker)
                  /\ UNCHANGED <<peers, acked, client, inflight, transit>>

\* A request whose sender has given up reaches relay `to`, which serves it as
\* any other; nobody awaits the response.  fault: the store call that errors.
Deliver(to, faults) ==
    \E m \in transit : \E fault \in faults :
        /\ m.to = to
        /\ Arrive(to, Request(m.headers, m.batch, IF fault = "insert" THEN 1 ELSE 0,
                              fault = "lookup"),
                  "nobody", worker)
        /\ transit' = transit \ {m}
        /\ UNCHANGED <<peers, acked, client, inflight>>

\* send() returns an error after the peer has taken the request up: the
\* connection fails while the peer's handler runs, or the response is lost.
\* The failure is logged and the loop continues; the handler goes on with
\* nobody awaiting its response.
WorkerSendErr(r) ==
    /\ worker[r].pc \in {"wait", "reply"}
    /\ worker' = [worker EXCEPT ![r] = NextPeer(worker[r], PostLog("lost", 0, TRUE))]
    /\ handlers' = [q \in Relays |->
                       {IF h.from = r THEN [h EXCEPT !.from = "nobody"] ELSE h :
                           h \in handlers[q]}]
    /\ UNCHANGED <<store, nextSeq, peers, acked, last, client, inflight, transit>>

\* The response has arrived: the match on it and, for a 2xx, the cursor
\* update.  ok: whether update_peer_cursor succeeds.
WorkerResume(r, oks) ==
    /\ worker[r].pc = "reply"
    /\ \E ok \in oks :
         LET w == worker[r]
             peer == w.todo[1]
             lastRow == w.batch[Len(w.batch)]
         IN  /\ worker' = [worker EXCEPT ![r] = NextPeer(w, PostLog("up", w.status, ok))]
             /\ acked' = IF is_success(w.status) /\ peer.peer_id \in DOMAIN acked[r]
                         THEN [acked EXCEPT ![r][peer.peer_id] =
                                  @ \cup {row.event_id : row \in Range(w.batch)}]
                         ELSE acked
             /\ IF AdvancesCursor("up", w.status) /\ ok
                THEN \E t \in CursorTimes(lastRow) :
                       peers' = [peers EXCEPT ![r] =
                                    update_peer_cursor(peers[r], peer.peer_id, t,
                                                       lastRow.event_id)]
                ELSE UNCHANGED peers
             /\ UNCHANGED <<store, nextSeq, last, client, inflight, handlers, transit>>

(***************************************************************************)
(* Two relays peered to each other, clients pushing to A                   *)
(***************************************************************************)
EventIds == {1, 2}

MeshEvents ==
    {Signed(id, "K1", None, None, occ) :
        id \in EventIds, occ \in {None} \cup {Some(t) : t \in Times}}

MeshRequests == {Request(NoHeaders, Batch(<<e>>, 0), 0, FALSE) : e \in MeshEvents}

InitMesh == InitEmpty

Nets == {"down", "lost", "up"}

PushMesh == PushReq("A", MeshRequests)

\* requests reach relay r until its sequence has handed out MaxMeshSeq values
Open(r) == nextSeq[r] <= MaxMeshSeq

\* Clients push to A.  The worker of each relay runs and meets the errors of
\* its own store calls.  A's POST meets every transport outcome and every
\* store error at B; B's POST, which sends back to A what B has stored, finds
\* A unreachable or is served without error.  The operator may remove B from
\* A's peers.
PushOpen == Open("A") /\ PushMesh
Wake == \E r \in Relays : WorkerWake(r, BOOLEAN)
Fetch == \E r \in Relays : WorkerFetch(r, BOOLEAN)
Post ==
    \/ WorkerPost("A", {"down", "lost"}, PostFaults)
    \/ Open("B") /\ WorkerPost("A", {"up"}, PostFaults)
    \/ WorkerPost("B", {"down"}, {"none"})
    \/ Open("A") /\ WorkerPost("B", {"up"}, {"none"})
Land == Open("B") /\ Deliver("B", PostFaults)
Serve == \E r \in Relays : InsertNext(r)
Lose == WorkerSendErr("A")
Resume == \E r \in Relays : WorkerResume(r, BOOLEAN)
RemovePeerMesh == RemovePeer("A")

NextMesh ==
    PushOpen \/ Wake \/ Fetch \/ Post \/ Land \/ Serve \/ Lose \/ Resume
    \/ RemovePeerMesh

SpecMesh == InitMesh /\ [][NextMesh]_vars

\* The same mesh with every peer reachable, every store call succeeding and
\* the workers scheduled fairly
WakeOk == \E r \in Relays : WorkerWake(r, {TRUE})
FetchOk == \E r \in Relays : WorkerFetch(r, {TRUE})
PostOk == \E r \in Relays : WorkerPost(r, {"up"}, {"none"})
ServeOk == \E r \in Relays : InsertNext(r)
ResumeOk == \E r \in Relays : WorkerResume(r, {TRUE})

NextFair == PushMesh \/ WakeOk \/ FetchOk \/ PostOk \/ ServeOk \/ ResumeOk

SpecFair ==
    /\ InitMesh
    /\ [][NextFair]_vars
    /\ \A r \in Relays :
          /\ WF_vars(WorkerWake(r, {TRUE}))
          /\ WF_vars(WorkerFetch(r, {TRUE}))
          /\ WF_vars(WorkerPost(r, {"up"}, {"none"}))
          /\ WF_vars(InsertNext(r))
          /\ WF_vars(WorkerResume(r, {TRUE}))

(***************************************************************************)
(* Relay A with a store that no longer changes and its healthy peer B,     *)
(* every call succeeding and the workers scheduled fairly.  B lists A as   *)
(* unhealthy, so B's worker has nobody to send to.                         *)
(***************************************************************************)
\* a time before the Unix epoch, which a client may put in occurred_at
BeforeEpoch == Epoch - 1

CatchUpTimes == {None, Some(BeforeEpoch)} \cup {Some(t) : t \in Times}

\* what pushes of the events Q, in the order of their ids, leave in a store
CatchUpStores ==
    {{RowOf(Signed(id, "K1", None, None, occ[id]), Cardinality({q \in Q : q <= id})) :
         id \in Q} :
        Q \in SUBSET EventIds, occ \in [EventIds -> CatchUpTimes]}

CatchUpPeers ==
    [r \in Relays |->
        IF r = "A" THEN [pB |-> NewPeer("B", PeerSecret, "healthy")]
        ELSE [pA |-> NewPeer("A", PeerSecret, "unhealthy")]]

InitCatchUp ==
    /\ \E rows \in CatchUpStores :
          /\ store = [r \in Relays |-> IF r = "A" THEN rows ELSE {}]
          /\ nextSeq = [r \in Relays |-> IF r = "A" THEN Cardinality(rows) + 1 ELSE 1]
    /\ peers = CatchUpPeers
    /\ worker = [r \in Relays |-> IdleWorker]
    /\ acked = [r \in Relays |-> [p \in DOMAIN CatchUpPeers[r] |-> {}]]
    /\ last = NoReply
    /\ inflight = [r \in Relays |-> {}]
    /\ handlers = [r \in Relays |-> {}]
    /\ transit = {}
    /\ client = NoClient

NextCatchUp == WakeOk \/ FetchOk \/ PostOk \/ ServeOk \/ ResumeOk

SpecCatchUp ==
    /\ InitCatchUp
    /\ [][NextCatchUp]_vars
    /\ \A r \in Relays :
          /\ WF_vars(WorkerWake(r, {TRUE}))
          /\ WF_vars(WorkerFetch(r, {TRUE}))
          /\ WF_vars(WorkerPost(r, {"up"}, {"none"}))
          /\ WF_vars(InsertNext(r))
          /\ WF_vars(WorkerResume(r, {TRUE}))

(***************************************************************************)
(* The same worker over stores of up to MaxSeq events of every time, whose *)
(* event ids run with or against their times                               *)
(***************************************************************************)
ScanIds == 1..MaxSeq

\* what pushes of the events Q, in the order of their ids, leave in a store
ScanStores ==
    {{RowOf(Signed(id, "K1", None, None, occ[id]), Cardinality({q \in Q : q <= id})) : id \in Q} :
        Q \in SUBSET ScanIds, occ \in [ScanIds -> CatchUpTimes]}

InitScan ==
    /\ \E rows \in ScanStores :
          /\ store = [r \in Relays |-> IF r = "A" THEN rows ELSE {}]
          /\ nextSeq = [r \in Relays |-> IF r = "A" THEN Cardinality(rows) + 1 ELSE 1]
    /\ peers = CatchUpPeers
    /\ worker = [r \in Relays |-> IdleWorker]
    /\ acked = [r \in Relays |-> [p \in DOMAIN CatchUpPeers[r] |-> {}]]
    /\ last = NoReply
    /\ inflight = [r \in Relays |-> {}]
    /\ handlers = [r \in Relays |-> {}]
    /\ transit = {}
    /\ client = NoClient

NextScan == WakeOk \/ FetchOk \/ PostOk \/ ServeOk \/ ResumeOk

SpecScan == InitScan /\ [][NextScan]_vars

(***************************************************************************)
(* A and B, each a healthy peer of the other, after the pushes have        *)
(* stopped: each relay holds what its clients pushed to it.  Every call    *)
(* succeeds and the workers are scheduled fairly.                          *)
(***************************************************************************)
EchoPeers ==
    [r \in Relays |->
        IF r = "A" THEN [pB |-> NewPeer("B", PeerSecret, "healthy")]
        ELSE [pA |-> NewPeer("A", PeerSecret, "healthy")]]

\* what the push of at most one event leaves in a store
EchoStores ==
    {{}} \cup {{RowOf(Signed(id, "K1", None, None, occ), 1)} :
                  id \in EventIds, occ \in CatchUpTimes}

InitEcho ==
    /\ \E rowsA \in EchoStores : \E rowsB \in EchoStores :
          /\ store = [r \in Relays |-> IF r = "A" THEN rowsA ELSE rowsB]
          /\ nextSeq = [r \in Relays |->
                           Cardinality(IF r = "A" THEN rowsA ELSE rowsB) + 1]
    /\ peers = EchoPeers
    /\ worker = [r \in Relays |-> IdleWorker]
    /\ acked = [r \in Relays |-> [p \in DOMAIN EchoPeers[r] |-> {}]]
    /\ last = NoReply
    /\ inflight = [r \in Relays |-> {}]
    /\ handlers = [r \in Relays |-> {}]
    /\ transit = {}
    /\ client = NoClient

NextEcho == WakeOk \/ FetchOk \/ PostOk \/ ServeOk \/ ResumeOk

SpecEcho ==
    /\ InitEcho
    /\ [][NextEcho]_vars
    /\ \A r \in Relays :
          /\ WF_vars(WorkerWake(r, {TRUE}))
          /\ WF_vars(WorkerFetch(r, {TRUE}))
          /\ WF_vars(WorkerPost(r, {"up"}, {"none"}))
          /\ WF_vars(InsertNext(r))
          /\ WF_vars(WorkerResume(r, {TRUE}))

(***************************************************************************)
(* Relay A with two healthy peers: pP, a host outside the mesh, and pQ,     *)
(* relay B.  Every call made for pP may fail; the calls made for pQ        *)
(* succeed.  B lists A as unhealthy, so B's worker has nobody to send to.  *)
(***************************************************************************)
IsolationPeers ==
    [r \in Relays |->
        IF r = "A" THEN [pP |-> NewPeer("P", "sAP", "healthy"),
                         pQ |-> NewPeer("B", PeerSecret, "unknown")]
        ELSE [pA |-> NewPeer("A", PeerSecret, "unhealthy")]]

InitIsolation ==
    /\ store = [r \in Relays |-> {}]
    /\ nextSeq = [r \in Relays |-> 1]
    /\ peers = IsolationPeers
    /\ worker = [r \in Relays |-> IdleWorker]
    /\ acked = [r \in Relays |-> [p \in DOMAIN IsolationPeers[r] |-> {}]]
    /\ last = NoReply
    /\ inflight = [r \in Relays |-> {}]
    /\ handlers = [r \in Relays |-> {}]
    /\ transit = {}
    /\ client = NoClient

\* the worker of relay r is at peer p in its for loop
AtPeer(r, p) == worker[r].todo /= << >> /\ worker[r].todo[1].peer_id = p

WakeIsolation == WorkerWake("A", {TRUE})
FetchP == AtPeer("A", "pP") /\ WorkerFetch("A", BOOLEAN)
PostP == AtPeer("A", "pP") /\ WorkerPost("A", Nets, PostFaults)
ResumeP == AtPeer("A", "pP") /\ WorkerResume("A", BOOLEAN)
FetchQ == AtPeer("A", "pQ") /\ WorkerFetch("A", {TRUE})
PostQ == AtPeer("A", "pQ") /\ WorkerPost("A", {"up"}, {"none"})
ServeQ == InsertNext("B")
ResumeQ == AtPeer("A", "pQ") /\ WorkerResume("A", {TRUE})
EndCycle == worker["A"].todo = << >> /\ WorkerFetch("A", {TRUE})

NextIsolation ==
    PushMesh \/ WakeIsolation \/ FetchP \/ PostP \/ ResumeP
    \/ FetchQ \/ PostQ \/ ServeQ \/ ResumeQ \/ EndCycle

\* every call the worker awaits returns, with or without an error, and the
\* sleep ends
SpecIsolation ==
    /\ InitIsolation
    /\ [][NextIsolation]_vars
    /\ WF_vars(WakeIsolation) /\ WF_vars(EndCycle)
    /\ WF_vars(FetchP) /\ WF_vars(PostP) /\ WF_vars(ResumeP)
    /\ WF_vars(FetchQ) /\ WF_vars(PostQ) /\ WF_vars(ServeQ) /\ WF_vars(ResumeQ)

(***************************************************************************)
(* Properties                                                              *)
(***************************************************************************)
\* the signature column verifies against the author_pubkey column over the
\* canonical bytes of the payload column: the key is hex of 32 bytes that
\* are a curve point, the signature is hex of 64 bytes, and it verifies
SignatureVerifies(row) ==
    /\ IsSome(hex_decode_key(row.author_pubkey))
    /\ key_try_into_32(row.author_pubkey) = row.author_pubkey
    /\ IsSome(VerifyingKey_from_bytes(row.author_pubkey))
    /\ IsSome(hex_decode_sig(row.signature))
    /\ IsSome(sig_try_into_64(row.signature))
    /\ sign_verify(row.author_pubkey, payload_bytes(row.payload_json), row.signature)

One(e) == Batch(<<e>>, 0)

\* C2 Dedup idempotence: in every reachable store, inserting any event e and
\* then e again leaves exactly one row with e.event_id, and the second insert
\* returns the empty list of server_seq.
C2_DedupIdempotence ==
    \A e \in IngestEvents :
        LET first == insert_events(store["A"], nextSeq["A"], One(e), 0)
            second == insert_events(first.rows, first.seq, One(e), 0)
        IN  /\ second.inserted = << >>
            /\ ~second.err
            /\ Cardinality({row \in second.rows : row.event_id = e.event_id}) = 1

\* a request of one event was answered 200 with nothing inserted, its
\* event_id being stored already
C2_Witness ==
    /\ last.op = "push" /\ last.status = 200
    /\ last.len = 1 /\ last.seqs = << >>
    /\ last.reinsert = "same"
    /\ Cardinality(store["A"]) = 1

\* C3 Re-insertion is a no-op: in every reachable store, inserting an event
\* whose event_id is stored, whatever its other fields, leaves the set of rows
\* (every field of every row, server_seq included) as it was and returns
\* no server_seq.
C3_ReinsertNoOp ==
    \A e \in IngestEvents :
        e.event_id \in StoredIds(store["A"]) =>
            LET r == insert_events(store["A"], nextSeq["A"], One(e), 0)
            IN  r.rows = store["A"] /\ r.inserted = << >> /\ ~r.err

\* an event_id was sent again with other field values and nothing was inserted
C3_Witness ==
    /\ last.op \in {"push", "replicate"} /\ last.status = 200
    /\ last.reinsert = "differs" /\ last.seqs = << >>
    /\ store["A"] /= {}

\* C4 Hash authoritative: every stored payload_hash is the canonical hash of
\* the stored payload_json (of the empty byte string when it is absent),
\* whatever hash the sender supplied.
C4_HashAuthoritative ==
    \A r \in Relays : \A row \in store[r] :
        row.payload_hash =
            cid_blake3_hex(IF IsSome(row.payload_json)
                           THEN to_string(Unwrap(row.payload_json)) ELSE << >>)

\* the event sent with a hash that is not the hash of its payload is stored
C4_Witness ==
    \E row \in store["A"] :
        /\ row.event_id = 1 /\ row.author_pubkey = "K1"
        /\ row.event_type = None /\ row.payload_json = None
        /\ row.payload_hash /= BogusHash

FailureLogs ==
    {"Failed to fetch replication batch", "Replication request failed",
     "Replication failed: Status"}

CursorOf(p) == <<p.last_cursor_time, p.last_cursor_id>>

\* C5 Cursor advance on success only: a worker step that ends in a failed
\* batch fetch, a transport error or a non-2xx status leaves the cursors of
\* the worker's relay as they were; a cursor changes only in the step in
\* which the worker matches the 2xx its own peer answered to the POST.
C5_CursorAdvanceOnSuccessOnly ==
    [][\A r \in Relays :
         /\ (worker'[r] /= worker[r] /\ worker'[r].log \in FailureLogs)
               => peers'[r] = peers[r]
         /\ \A p \in DOMAIN peers[r] \cap DOMAIN peers'[r] :
               CursorOf(peers'[r][p]) /= CursorOf(peers[r][p])
                  => /\ worker[r].pc = "reply"
                     /\ worker[r].todo[1].peer_id = p
                     /\ is_success(worker[r].status)
                     /\ worker'[r].log = "Replicated"]_vars

\* send() of A's worker returned an error for a POST whose events B has
\* stored, and B's cursor is still where add_peer put it
C5_Witness ==
    /\ worker["A"].log = "Replication request failed"
    /\ "pB" \in DOMAIN peers["A"]
    /\ CursorOf(peers["A"]["pB"]) = <<Epoch, NilUuid>>
    /\ \E row \in store["A"] : IsSome(row.occurred_at)
    /\ store["B"] /= {}

\* C6 Mesh convergence: with B a healthy, reachable, accepting peer of A and
\* the worker scheduled fairly, every event stored at A is eventually stored
\* at B.
C6_MeshConvergence ==
    \A id \in EventIds :
        (id \in StoredIds(store["A"])) ~> (id \in StoredIds(store["B"]))

\* the event_ids a pull from relay r returns when it starts at cursor 0
PulledIds(r) ==
    {ev.event_id : ev \in Range(pull_handler(store[r], Some(0), None).events)}

\* C7 Replication convergence: every event_id of a batch that a peer
\* answered with 2xx is in that peer's store, and a pull from the peer that
\* starts at cursor 0 returns it.
C7_ReplicationConvergence ==
    \A r \in Relays : \A p \in DOMAIN peers[r] :
        /\ acked[r][p] \subseteq StoredIds(store[peers[r][p].url])
        /\ acked[r][p] \subseteq PulledIds(peers[r][p].url)

\* every event pushed to A that a replication scan can reach was
\* acknowledged by B
C7_Witness ==
    /\ Cardinality(store["A"]) = 2
    /\ acked["A"]["pB"] = StoredIds(store["A"])
    /\ worker["A"].log = "Replicated"

\* C8 Same pipeline: in every reachable state, a request body sent with
\* headers that pass the replication gates (the token of a registered peer,
\* the relay id of another relay, one hop) gets from /relay/replicate the
\* status, and leaves the rows, that /relay/push gives it.
C8_SamePipeline ==
    \A req \in PushRequests : \A p \in DOMAIN peers["A"] :
        LET viaPush == push_handler(store["A"], nextSeq["A"], req.batch, req.fail)
            viaPeer == replicate_handler("A", peers["A"], store["A"], nextSeq["A"],
                                         Headers(Some(peers["A"][p].shared_secret),
                                                 Some("B"), Some(Hop(1))),
                                         req.batch, req.fail, FALSE)
        IN  viaPush.status = viaPeer.status /\ viaPush.rows = viaPeer.rows

\* C9 Pull cursor enumeration: on an unchanging store, for every start
\* cursor c0 and limit L >= 1, a client that passes each next_cursor back is
\* given the events with server_seq > c0 exactly once in ascending server_seq
\* order and ends with an empty page; each next_cursor is the server_seq of the
\* page's last event, or the cursor passed in when the page is empty.
C9_PullEnumeration ==
    LET want == {row.server_seq : row \in {x \in store["A"] : x.server_seq > client.start}}
        seen == client.seen
    IN  /\ \A i \in 1..(Len(seen) - 1) : seen[i] < seen[i + 1]
        /\ Range(seen) = {s \in want : s <= client.cursor}
        /\ client.cursor = IF seen = << >> THEN client.start ELSE seen[Len(seen)]
        /\ client.pages <= Len(seen) + 1
        /\ client.pages > 0 =>
              /\ last.next_cursor = client.cursor
              /\ Len(last.seqs) <= client.limit
              /\ client.done = (last.seqs = << >>)
        /\ client.done => Range(seen) = want

\* a client with limit 1 has paged over a store with a gap to the empty page
C9_Witness ==
    /\ client.done /\ client.limit = 1 /\ client.start = 0
    /\ client.seen = <<1, 3>> /\ client.pages = 3

HopValues == {None, Some(Hop(1)), Some(Hop(MAX_HOPS + 1)), Some(HopJunk)}

\* the bodies of the replicate requests, each with the statement at which
\* the store fails
LoopBodies == {<<req.batch, req.fail>> : req \in ReplicateRequests}

\* C10 Loop suppression: a replicate request with the token of a registered
\* peer and X-Relay-Id equal to the recipient's relay id is answered 400 and
\* leaves the store as it was, whatever its body and its X-Hop.
C10_LoopSuppression ==
    \A body \in LoopBodies : \A hop \in HopValues : \A p \in DOMAIN peers["A"] :
        LET o == replicate_handler("A", peers["A"], store["A"], nextSeq["A"],
                     Headers(Some(peers["A"][p].shared_secret),
                             Some(RelayIdString("A")), hop),
                     body[1], body[2], FALSE)
        IN  o.status = 400 /\ o.rows = store["A"] /\ o.inserted = << >>

\* a request carrying the recipient's own relay id was answered 400
C10_Witness ==
    /\ last.op = "replicate" /\ last.relay = "A"
    /\ last.status = 400 /\ last.msg = "loop detected: my own relay id"
    /\ last.seqs = << >>
    /\ store["A"] /= {}

\* the gate of /relay/replicate that stops a request with these headers at
\* relay r, as the three gates are documented: AUTH, then LOOP-CHECK, then
\* HOP-CHECK; Ok when the request reaches ingestion
GateVerdict(r, headers) ==
    IF ~IsSome(headers.token) THEN Resp(401, "missing X-Peer-Token")
    ELSE IF \A p \in DOMAIN peers[r] : peers[r][p].shared_secret /= Unwrap(headers.token)
    THEN Resp(401, "invalid peer token")
    ELSE IF headers.relay_id = Some(RelayIdString(r))
    THEN Resp(400, "loop detected: my own relay id")
    ELSE IF IsSome(headers.hop) /\ Unwrap(headers.hop).parses /\ Unwrap(headers.hop).n > 3
    THEN Resp(400, "max hops exceeded")
    ELSE Ok

\* the bodies the gates are tried with
GateBatches == {Batch(<<ProbeEvent>>, 0), Batch(<<ProbeEvent>>, PadToLimit)}

\* C11 Replication gate state machine: with the token lookup answering, a
\* replicate request is stopped by the first of AUTH (401), LOOP-CHECK (400)
\* and HOP-CHECK (400) that fails, with that gate's response and the store
\* untouched, and reaches validate_and_insert exactly when it passes all three.
C11_ReplicationGates ==
    \A headers \in IngestHeaders : \A batch \in GateBatches :
        LET o == replicate_handler("A", peers["A"], store["A"], nextSeq["A"],
                                   headers, batch, 0, FALSE)
            gate == GateVerdict("A", headers)
        IN  IF gate /= Ok
            THEN /\ o.status = gate.status /\ o.msg = gate.msg
                 /\ o.rows = store["A"] /\ o.inserted = << >>
            ELSE o = validate_and_insert(store["A"], nextSeq["A"], batch, 0)

\* a request that passed AUTH and LOOP-CHECK was stopped by HOP-CHECK at a
\* relay that holds events
C11_Witness ==
    /\ last.op = "replicate" /\ last.relay = "A"
    /\ last.status = 400 /\ last.msg = "max hops exceeded"
    /\ Cardinality(store["A"]) = 2

\* C12 Peer cursor monotonicity: every write of a peer's (last_cursor_time,
\* last_cursor_id) by the replication worker puts a value strictly greater in
\* (occurred_at, event_id) order than the one it replaces, and no step moves
\* a cursor backwards.
C12_CursorMonotonic ==
    [][\A r \in Relays : \A p \in DOMAIN peers[r] \cap DOMAIN peers'[r] :
         LET old == peers[r][p]
             new == peers'[r][p]
             greater == CursorLess(old.last_cursor_time, old.last_cursor_id,
                                   new.last_cursor_time, new.last_cursor_id)
         IN  /\ CursorOf(new) = CursorOf(old) \/ greater
             /\ (/\ worker[r].pc = "reply"
                 /\ worker[r].todo[1].peer_id = p
                 /\ worker'[r].log = "Replicated") => greater]_vars

\* B's cursor at A was written and stands at the later of two stored events
C12_Witness ==
    /\ worker["A"].log = "Replicated"
    /\ "pB" \in DOMAIN peers["A"]
    /\ CursorOf(peers["A"]["pB"]) = <<2, 2>>
    /\ \E row \in store["A"] : row.event_id = 1 /\ row.occurred_at = Some(1)

\* the stored rows that have a composite (occurred_at, event_id)
Timed(rows) == {row \in rows : IsSome(row.occurred_at)}

\* the cursor of peer p at relay r stands at the greatest (occurred_at,
\* event_id) of r's store, and the scan for p returns nothing
CaughtUp(r, p) ==
    LET c == peers[r][p]
    IN  /\ fetch_replication_batch(store[r], c.last_cursor_time, c.last_cursor_id,
                                   REPLICATION_BATCH_LIMIT) = << >>
        /\ Timed(store[r]) /= {} =>
              \E top \in Timed(store[r]) :
                 /\ CursorOf(c) = <<Unwrap(top.occurred_at), top.event_id>>
                 /\ \A row \in Timed(store[r]) \ {top} :
                       CursorLess(Unwrap(row.occurred_at), row.event_id,
                                  Unwrap(top.occurred_at), top.event_id)

\* C13 Progress guarantee: with B healthy, reachable and answering 2xx and no
\* new event stored at A, from some cycle on B's cursor at A equals the
\* greatest (occurred_at, event_id) of A's store and the scan for B is empty,
\* for good.
C13_ProgressGuarantee == <>[]CaughtUp("A", "pB")

\* the lines the worker logs when a step fails for the peer it is at
PeerFailureLogs == FailureLogs \cup {"Failed to update cursor"}

\* the scan for peer p at relay r returns nothing
ScanEmpty(r, p) ==
    fetch_replication_batch(store[r], peers[r][p].last_cursor_time,
                            peers[r][p].last_cursor_id, REPLICATION_BATCH_LIMIT) = << >>

\* C14 Failure isolation between peers: a worker step that fails for peer pP
\* (batch fetch error, transport error, non-2xx, cursor update error) leaves
\* pQ's cursor as it was and leaves pQ, when it is still to come in the cycle,
\* next in the for loop; and however pP's calls end, pQ catches up time and
\* again.
C14_FailureIsolation ==
    /\ [][(AtPeer("A", "pP") /\ worker'["A"] /= worker["A"]
              /\ worker'["A"].log \in PeerFailureLogs)
          => /\ peers'["A"]["pQ"] = peers["A"]["pQ"]
             /\ worker'["A"].pc = "peers"
             /\ worker'["A"].todo = Tail1(worker["A"].todo)]_vars
    /\ []<>ScanEmpty("A", "pQ")

\* in a cycle that began with pP, pP's step failed, pQ is next in the loop
\* with events to send, and its cursor is where add_peer put it
C14_Witness ==
    /\ worker["A"].log \in PeerFailureLogs
    /\ AtPeer("A", "pQ")
    /\ ~ScanEmpty("A", "pQ")
    /\ CursorOf(peers["A"]["pQ"]) = <<Epoch, NilUuid>>

\* C15 Rejected push persists nothing: a /relay/push answered 400 or 401
\* leaves the event store as it was, and reports no server_seq; the valid
\* events that precede the offending one in the array are not stored.
C15_RejectedPushPersistsNothing ==
    [][(last'.op = "push" /\ last'.status \in {400, 401})
          => /\ store' = store
             /\ last'.seqs = << >>]_vars

\* an array of a valid event followed by one whose signature fails was
\* answered 401 and the store is empty
C15_Witness ==
    /\ last.op = "push" /\ last.status = 401 /\ last.msg = "invalid signature"
    /\ last.len = 2
    /\ store["A"] = {}

\* the rule as documented: the event_type is absent or none of the four
\* protocol types, or the payload is present with a non-empty string
\* content_id and, for value.snapshot, with both window keys
SchemaRule(ev) ==
    \/ ev.event_type = None
    \/ ev.event_type \notin {Some("read.completed"), Some("derivative.created"),
                             Some("citation.created"), Some("value.snapshot")}
    \/ /\ ev.payload_json /= None
       /\ LET payload == Unwrap(ev.payload_json)
          IN  /\ payload.content_id /= None
              /\ Unwrap(payload.content_id).t = "str"
              /\ Unwrap(payload.content_id).v /= ""
              /\ ev.event_type = Some("value.snapshot")
                    => payload.window_start /= None /\ payload.window_end /= None

\* C16 Schema validation rule of /relay/push: an event passes the schema
\* check exactly when it satisfies the documented rule, and an array of
\* validly signed events is answered 400 exactly when one of its events
\* fails it (and 200 otherwise).
C16_SchemaRule ==
    /\ \A e \in SchemaEvents : (SchemaCheck(e) = Ok) <=> SchemaRule(e)
    /\ \A req \in SchemaRequests :
          LET o == push_handler(store["A"], nextSeq["A"], req.batch, req.fail)
              fails == \E i \in 1..Len(req.batch.events) : ~SchemaRule(req.batch.events[i])
          IN  o.status = IF fails THEN 400 ELSE 200

\* a value.snapshot lacking a window key was answered 400 by a relay that
\* holds an event
C16_Witness ==
    /\ last.op = "push" /\ last.status = 400
    /\ last.msg = "missing window_start or window_end"
    /\ store["A"] /= {}

\* the rows of relay A whose INSERT has run, committed or not
Taken == store["A"] \cup inflight["A"]

\* the handler that handler h of this state is in the next one, if it is
\* still in insert_events
Later(h) == {g \in handlers'["A"] : g.id = h.id}

\* the list has not changed or has grown by the server_seq of a row that has
\* just become visible and holds the element of the array at h.next
GrownBy(h, list) ==
    \/ list = h.inserted
    \/ \E row \in store'["A"] \ store["A"] :
          /\ list = Append(h.inserted, row.server_seq)
          /\ InputOf(row) = h.array[h.next]

\* the list names, in increasing server_seq, stored rows that hold elements
\* of the array at increasing positions
InArrayOrder(list, array, rows) ==
    /\ Len(list) <= Len(array)
    /\ \A i \in 1..(Len(list) - 1) : list[i] < list[i + 1]
    /\ \E pos \in [1..Len(list) -> 1..Len(array)] :
          /\ \A i \in 1..(Len(list) - 1) : pos[i] < pos[i + 1]
          /\ \A i \in 1..Len(list) :
                \E row \in rows : row.server_seq = list[i] /\ InputOf(row) = array[pos[i]]

\* what holds of server_seq whatever the order in which rows become visible:
\* no two rows share one, and the inserted_seqs of every handler grow only by
\* rows that handler has inserted, are strictly increasing, follow the order
\* of its array and are no longer than it, up to and in its response
SeqListsSound ==
    /\ \A x \in Taken' : \A y \in Taken' : x.server_seq = y.server_seq => x = y
    /\ \A h \in handlers["A"] :
          LET list == IF Later(h) = {} THEN last'.seqs
                      ELSE (CHOOSE g \in Later(h) : TRUE).inserted
          IN  /\ GrownBy(h, list)
              /\ InArrayOrder(list, h.array, store'["A"])
              /\ Later(h) = {} => last'.op = "push" /\ last'.len = Len(h.array)

C18_PullUnderConcurrentPushes ==
    /\ \A i \in 1..(Len(client.seen) - 1) : client.seen[i] < client.seen[i + 1]
    /\ \A row \in inflight["A"] : row.server_seq > client.cursor
    /\ \A row \in store["A"] :
          (client.start < row.server_seq /\ row.server_seq <= client.cursor)
          => row.server_seq \in Range(client.seen)

\* C19 single invalid-signature condition: an event whose author_pubkey or
\* signature is malformed hex, whose key is not 32 bytes, whose signature is
\* not 64 bytes or whose signature fails verification is answered 401 by
\* ingestion, and nothing is persisted.
C19_SingleInvalidSignature ==
    \A e \in IngestEvents :
        ~SignatureVerifies(e)
        => LET o == validate_and_insert(store["A"], nextSeq["A"], One(e), 0)
           IN  /\ o.status = 401
               /\ o.rows = store["A"]
               /\ o.inserted = << >>

\* the positions of a request body whose event fails the schema rule
SchemaFailures(batch) ==
    {i \in 1..Len(batch.events) : SchemaCheck(batch.events[i]) /= Ok}

\* C20 order of push checks: an oversize array is answered 400 "batch size
\* exceeds limit" whatever its events; otherwise an array holding an event
\* that fails the schema rule, at any position and whatever the signatures of
\* the events before it, is answered 400 with the message of the first such
\* event and nothing is stored; hashes and signatures are looked at only for
\* arrays that pass both.
C20_OrderOfPushChecks ==
    \A req \in PushRequests :
        LET o == push_handler(store["A"], nextSeq["A"], req.batch, req.fail)
            failures == SchemaFailures(req.batch)
        IN  IF BatchLen(req.batch) > MAX_BATCH_SIZE
            THEN /\ o.status = 400
                 /\ o.msg = "batch size exceeds limit (100)"
                 /\ o.rows = store["A"] /\ o.seq = nextSeq["A"] /\ o.inserted = << >>
            ELSE IF failures /= {}
            THEN LET k == CHOOSE i \in failures : \A j \in failures : i <= j
                 IN  /\ o.status = 400
                     /\ o.msg = SchemaCheck(req.batch.events[k]).msg
                     /\ o.rows = store["A"] /\ o.seq = nextSeq["A"] /\ o.inserted = << >>
            ELSE o = validate_and_insert(store["A"], nextSeq["A"], req.batch, req.fail)

\* the last response is the 400 of the schema rule to an array of two events
\* whose first event passes the schema rule and has a signature that does not
\* verify, and whose second event fails the schema rule
C20_Witness ==
    /\ last.op = "push" /\ last.status = 400 /\ last.len = 2
    /\ store["A"] /= {}
    /\ \E req \in PushRequests :
          /\ Len(req.batch.events) = 2 /\ req.batch.pad = 0
          /\ SchemaCheck(req.batch.events[1]) = Ok
          /\ SignatureCheck(req.batch.events[1]).status = 401
          /\ SchemaCheck(req.batch.events[2]) = Resp(400, last.msg)
          /\ last = Reply("push", "A",
                          push_handler(store["A"], nextSeq["A"], req.batch, req.fail),
                          0, store["A"], req.batch)

\* the cursors and limits a replication scan is asked with
ScanCursorTimes == {BeforeEpoch, Epoch} \cup Times
ScanCursorIds == {NilUuid} \cup ScanIds
ScanLimits == 0..(MaxSeq + 1)

\* (t1, id1) comes before (t2, id2) in the order by time, then id
PairBefore(t1, id1, t2, id2) == IF t1 = t2 THEN id1 < id2 ELSE t1 < t2

\* the rows of a store that carry a time and come after the cursor
AfterCursor(rows, last_time, last_id) ==
    {row \in rows : /\ row.occurred_at /= None
                    /\ PairBefore(last_time, last_id, row.occurred_at[1], row.event_id)}

\* C21 fetch_replication_batch returns exactly the min(limit, n) smallest of
\* the n stored events whose (occurred_at, event_id) is strictly greater
\* than the cursor, ascending by occurred_at and then event_id; the event
\* equal to the cursor is left out and an event with the cursor's time and a
\* greater event_id is part of the scan.
C21_ReplicationBatch ==
    \A last_time \in ScanCursorTimes : \A last_id \in ScanCursorIds : \A limit \in ScanLimits :
        LET res == fetch_replication_batch(store["A"], last_time, last_id, limit)
            after == AfterCursor(store["A"], last_time, last_id)
            n == Cardinality(after)
        IN  /\ Len(res) = IF limit < n THEN limit ELSE n
            /\ Range(res) \subseteq after
            /\ \A i \in 1..Len(res) : \A j \in (i + 1)..Len(res) :
                  PairBefore(res[i].occurred_at[1], res[i].event_id,
                             res[j].occurred_at[1], res[j].event_id)
            /\ \A x \in Range(res) : \A y \in after \ Range(res) :
                  PairBefore(x.occurred_at[1], x.event_id, y.occurred_at[1], y.event_id)
            /\ \A row \in store["A"] :
                  (row.occurred_at = Some(last_time) /\ row.event_id = last_id)
                  => row \notin Range(res)
            /\ \A row \in store["A"] :
                  (row.occurred_at = Some(last_time) /\ row.event_id > last_id /\ limit >= n)
                  => row \in Range(res)

\* the worker holds a batch of three events: two share a time and come in
\* the order of their ids, the third has the smallest id and a later time
C21_Witness ==
    /\ worker["A"].pc = "post"
    /\ Len(worker["A"].batch) = 3
    /\ worker["A"].batch[1].occurred_at = worker["A"].batch[2].occurred_at
    /\ worker["A"].batch[1].event_id < worker["A"].batch[2].event_id
    /\ worker["A"].batch[3].event_id = 1
    /\ worker["A"].batch[3].occurred_at = Some(2)

\* C22 events without occurred_at: a push of such an event is answered 200
\* and the event is stored without a time and returned by pull; no
\* replication scan, for any cursor, returns a stored event without
\* occurred_at, no batch the worker sends holds one, no peer has acknowledged
\* one, and every peer cursor is the initial one or the (occurred_at,
\* event_id) of a stored event.
C22_NoTimeNoReplication ==
    /\ \A e \in MeshEvents :
          e.occurred_at = None
          => LET o == push_handler(store["A"], nextSeq["A"], One(e), 0)
             IN  /\ o.status = 200
                 /\ e.event_id \in StoredIds(o.rows)
                 /\ e.event_id \notin StoredIds(store["A"])
                    => \E row \in o.rows \ store["A"] :
                          row.event_id = e.event_id /\ row.occurred_at = None
    /\ store["A"] \subseteq Range(pull_handler(store["A"], None, None).events)
    /\ \A last_time \in ScanCursorTimes : \A last_id \in ScanCursorIds : \A limit \in ScanLimits :
          \A row \in Range(fetch_replication_batch(store["A"], last_time, last_id, limit)) :
              row.occurred_at /= None
    /\ \A r \in Relays :
          worker[r].pc \in {"post", "wait", "reply"}
          => /\ worker[r].batch /= << >>
             /\ \A row \in Range(worker[r].batch) : row.occurred_at /= None
    /\ \A r \in Relays : \A p \in DOMAIN peers[r] :
          /\ \A row \in store[r] : row.occurred_at = None => row.event_id \notin acked[r][p]
          /\ \/ CursorOf(peers[r][p]) = <<Epoch, NilUuid>>
             \/ \E row \in store[r] :
                   /\ row.occurred_at = Some(peers[r][p].last_cursor_time)
                   /\ row.event_id = peers[r][p].last_cursor_id

\* relay A stores an event without occurred_at and an event with one; its
\* worker has finished a cycle in which B acknowledged a batch; B stores the
\* second event only and B's cursor at A is that event
C22_Witness ==
    /\ worker["A"].pc = "sleep" /\ worker["A"].log = ""
    /\ \E x \in store["A"] : \E y \in store["A"] :
          /\ x.occurred_at = None /\ y.occurred_at /= None
          /\ x.event_id < y.event_id
          /\ StoredIds(store["B"]) = {y.event_id}
          /\ acked["A"]["pQ"] = {y.event_id}
          /\ CursorOf(peers["A"]["pQ"]) = <<y.occurred_at[1], y.event_id>>

\* C23 X-Relay-Id is required on inbound replication: a request with a valid
\* peer token and no X-Relay-Id header is not answered 2xx and persists
\* nothing.
C23_RelayIdRequired ==
    \A h \in IngestHeaders : \A b \in GateBatches :
        (/\ h.token /= None
         /\ validate_peer_token(peers["A"], Unwrap(h.token)) /= {}
         /\ h.relay_id = None)
        => LET o == replicate_handler("A", peers["A"], store["A"], nextSeq["A"], h, b, 0, FALSE)
           IN  /\ ~is_success(o.status)
               /\ o.rows = store["A"]
               /\ o.inserted = << >>

\* C24 no event is skipped by a peer cursor: for each peer p of each relay,
\* every stored event with an occurred_at whose (occurred_at, event_id) is
\* at or below p's cursor was in a batch that p answered with 2xx.
C24_NoEventSkipped ==
    \A r \in Relays : \A p \in DOMAIN peers[r] : \A row \in store[r] :
        (/\ row.occurred_at /= None
         /\ ~PairBefore(peers[r][p].last_cursor_time, peers[r][p].last_cursor_id,
                        row.occurred_at[1], row.event_id))
        => row.event_id \in acked[r][p]

\* no worker holds a batch, no handler is suspended and every fetch for a
\* healthy peer returns empty
Quiescent ==
    \A r \in Relays :
        /\ worker[r].pc \notin {"post", "wait", "reply"}
        /\ handlers[r] = {}
        /\ \A p \in fetch_healthy_peers(peers[r]) :
              fetch_replication_batch(store[r], peers[r][p].last_cursor_time,
                                      peers[r][p].last_cursor_id,
                                      REPLICATION_BATCH_LIMIT) = << >>

\* the peer's handler answers the batch of relay r's worker, all of whose
\* events the peer stores already and none of which the handler has inserted
EchoAnswer(r) ==
    /\ worker[r].pc = "wait"
    /\ worker'[r].pc = "reply"
    /\ {row.event_id : row \in Range(worker[r].batch)}
          \subseteq StoredIds(store[worker[r].todo[1].url])
    /\ \A h \in handlers[worker[r].todo[1].url] : h.from = r => h.inserted = << >>

\* C25 echo quiescence in a mutual peering: once pushes have stopped, the
\* system reaches and keeps a state in which both workers' fetches return
\* empty and no request is being sent or served; a batch echoed to a relay
\* that stores all its events is answered 200 with nothing inserted and
\* changes no stored row; and the 200 moves the sender's cursor to the
\* batch's last event.
C25_EchoQuiescence ==
    /\ <>[]Quiescent
    /\ [][\A r \in Relays :
            /\ EchoAnswer(r)
               => /\ last'.op = "replicate" /\ last'.relay = worker[r].todo[1].url
                  /\ last'.status = 200 /\ last'.seqs = << >>
                  /\ worker'[r].status = 200
                  /\ store' = store
            /\ (worker[r].pc = "reply" /\ worker[r].status = 200 /\ worker'[r].pc = "peers")
               => LET peer == worker[r].todo[1]
                      lastRow == worker[r].batch[Len(worker[r].batch)]
                  IN  CursorOf(peers'[r][peer.peer_id])
                         = <<lastRow.occurred_at[1], lastRow.event_id>>]_vars

\* both relays store the two events, the last request was an echo answered
\* 200 with nothing inserted, and the mesh is quiescent
C25_Witness ==
    /\ Quiescent
    /\ StoredIds(store["A"]) = EventIds /\ StoredIds(store["B"]) = EventIds
    /\ last.op = "replicate" /\ last.status = 200 /\ last.seqs = << >>
    /\ last.reinsert = "same"
    /\ CursorOf(peers["A"]["pB"]) /= <<Epoch, NilUuid>>
    /\ CursorOf(peers["B"]["pA"]) /= <<Epoch, NilUuid>>

====
